---------------------------- MODULE Spec2Model ----------------------------
(***************************************************************************)
(* A model of the DEFLATE inflater of src/deflate.rs: the LSB-first bit    *)
(* reader HuffReader, the two-level code table built by                    *)
(* table_from_lengths, and the block state machine Inflater with its       *)
(* Reader::read entry point.                                               *)
(*                                                                         *)
(* Integers keep the width they have in the source: num_bits and the       *)
(* bl_count entries are u8 (mod 256), codes are u16 (mod 65536).  The      *)
(* accumulator is u32; guarantee shifts a byte in only while num_bits is   *)
(* below the requested count (at most 16), so its value stays below 2^24   *)
(* and is held as a natural number.  The source predates overflow checks:  *)
(* arithmetic wraps silently, while an out-of-range index and fail!() end  *)
(* the task.                                                               *)
(***************************************************************************)
EXTENDS Integers, Sequences, FiniteSets, TLC

(***************************************************************************)
(* Program constants (src/deflate.rs:6-32).                                *)
(***************************************************************************)
LITERALLENGTHCODES == 286
DISTANCECODES == 30
TABLESIZE == 9

CODEORDER == <<16, 17, 18, 0, 8, 7, 9, 6, 10, 5, 11, 4, 12, 3, 13, 2, 14, 1, 15>>

LENGTHS ==
    <<3, 4, 5, 6, 7, 8, 9, 10, 11, 13,
      15, 17, 19, 23, 27, 31, 35, 43, 51, 59,
      67, 83, 99, 115, 131, 163, 195, 227, 258>>

EXTRA_LENGTHS ==
    <<0, 0, 0, 0, 0, 0, 0, 0, 1, 1,
      1, 1, 2, 2, 2, 2, 3, 3, 3, 3,
      4, 4, 4, 4, 5, 5, 5, 5, 0>>

DISTANCES ==
    <<1, 2, 3, 4, 5, 7, 9, 13, 17, 25,
      33, 49, 65, 97, 129, 193, 257, 385, 513, 769,
      1025, 1537, 2049, 3073, 4097, 6145, 8193, 12289, 16385, 24577>>

EXTRA_DISTANCES ==
    <<0, 0, 0, 0, 1, 1, 2, 2, 3, 3,
      4, 4, 5, 5, 6, 6, 7, 7, 8, 8,
      9, 9, 10, 10, 11, 11, 12, 12, 13, 13>>

(***************************************************************************)
(* Machine arithmetic.                                                     *)
(***************************************************************************)
Pow2(n) == 2 ^ n

U8(x) == x % 256

U16(x) == x % 65536

RECURSIVE BitAnd(_, _)
BitAnd(a, b) ==
    IF a = 0 \/ b = 0 THEN 0
    ELSE (IF a % 2 = 1 /\ b % 2 = 1 THEN 1 ELSE 0) + 2 * BitAnd(a \div 2, b \div 2)

RECURSIVE BitOr(_, _)
BitOr(a, b) ==
    IF a = 0 THEN b
    ELSE IF b = 0 THEN a
    ELSE (IF a % 2 = 1 \/ b % 2 = 1 THEN 1 ELSE 0) + 2 * BitOr(a \div 2, b \div 2)

Min(a, b) == IF a < b THEN a ELSE b

\* fn reverse(a: u16) -> u16: the 16-bit bit reversal, by swapping halves.
reverse(a) ==
    LET b == BitOr(BitAnd(43690, a) \div 2, U16(BitAnd(21845, a) * 2))
        c == BitOr(BitAnd(52428, b) \div 4, U16(BitAnd(13107, b) * 4))
        d == BitOr(BitAnd(61680, c) \div 16, U16(BitAnd(3855, c) * 16))
    IN  BitOr(BitAnd(65280, d) \div 256, U16(BitAnd(255, d) * 256))

(***************************************************************************)
(* TableElement (src/deflate.rs:35-39).                                    *)
(***************************************************************************)
Nothing == [t |-> "Nothing"]

Symbol(val, size) == [t |-> "Symbol", val |-> val, size |-> size]

Table(mask, a) == [t |-> "Table", mask |-> mask, a |-> a]

(***************************************************************************)
(* table_from_lengths.  lengths is the length vector, symbol i at index    *)
(* i + 1 (0 means the symbol has no code).                                 *)
(*                                                                         *)
(* The source fills the table by one pass over the symbols, each write     *)
(* replacing what the slot held.  The pass is stated here slot by slot:    *)
(* the symbols that write a slot are found, and the slot holds what the    *)
(* last of them wrote.  A long code (len > TABLESIZE) reaches its primary  *)
(* slot through TableElement::put, which ends the task unless the slot    *)
(* is a Table; a short code written later replaces a Table silently.       *)
(* Tables are held as tuples, slot index at position index + 1.            *)
(***************************************************************************)
\* bl_count[len] += 1 over the vector, in u8; then bl_count[0] = 0.
bl_count(lengths) ==
    [len \in 0..15 |->
        IF len = 0 THEN 0
        ELSE U8(Cardinality({i \in DOMAIN lengths : lengths[i] = len}))]

max_len(lengths) ==
    IF \E len \in 1..15 : \E i \in DOMAIN lengths : lengths[i] = len
    THEN CHOOSE len \in 1..15 :
            /\ \E i \in DOMAIN lengths : lengths[i] = len
            /\ \A i \in DOMAIN lengths : lengths[i] <= len
    ELSE 0

\* code = (code + bl_count[bits - 1]) << 1; next_code[bits] = code, in u16.
RECURSIVE StartCode(_, _)
StartCode(blc, bits) ==
    IF bits = 0 THEN 0
    ELSE U16((StartCode(blc, bits - 1) + blc[bits - 1]) * 2)

next_code(lengths) ==
    LET blc == bl_count(lengths)
    IN  <<StartCode(blc, 1), StartCode(blc, 2), StartCode(blc, 3),
          StartCode(blc, 4), StartCode(blc, 5), StartCode(blc, 6),
          StartCode(blc, 7), StartCode(blc, 8), StartCode(blc, 9),
          StartCode(blc, 10), StartCode(blc, 11), StartCode(blc, 12),
          StartCode(blc, 13), StartCode(blc, 14), StartCode(blc, 15)>>

\* "let code = next_code[len]; ...; next_code[len] += 1": symbol n takes the
\* start code of its length plus the number of earlier symbols of that
\* length (u16), reversed and cut to its len bits.
AssignedCode(lengths, nc, n) ==
    U16(nc[lengths[n]] + Cardinality({j \in 1..(n - 1) : lengths[j] = lengths[n]}))

ReversedCode(lengths, nc, n) ==
    IF lengths[n] = 0 THEN 0
    ELSE reverse(AssignedCode(lengths, nc, n)) \div Pow2(16 - lengths[n])

RECURSIVE ReversedCodes(_, _, _, _)
ReversedCodes(lengths, nc, lo, hi) ==
    IF lo > hi THEN <<>>
    ELSE IF lo = hi THEN <<ReversedCode(lengths, nc, lo)>>
    ELSE LET mid == (lo + hi) \div 2
         IN  ReversedCodes(lengths, nc, lo, mid) \o ReversedCodes(lengths, nc, mid + 1, hi)

\* The symbols (1-based) whose short code writes primary slot index.
ShortWriters(lengths, rc, index) ==
    {n \in DOMAIN lengths :
        /\ lengths[n] # 0
        /\ lengths[n] <= TABLESIZE
        /\ index % Pow2(lengths[n]) = rc[n]}

\* The symbols whose long code goes through primary slot index.
LongWriters(lengths, rc, index) ==
    {n \in DOMAIN lengths :
        /\ lengths[n] > TABLESIZE
        /\ rc[n] % Pow2(TABLESIZE) = index}

\* The write that stays in a slot: the last one made.
LastWriter(S) == CHOOSE n \in S : \A m \in S : m <= n

\* The secondary table of a primary slot after every put.
SecondaryOf(lengths, rc, maxlen, L) ==
    LET max_overflow == U8(maxlen - TABLESIZE)
    IN  Table(Pow2(max_overflow) - 1,
              [k \in 0..(Pow2(max_overflow) - 1) |->
                  LET W == {n \in L :
                              k % Pow2(lengths[n] - TABLESIZE)
                                  = rc[n] \div Pow2(TABLESIZE)}
                  IN  IF W = {} THEN Nothing
                      ELSE Symbol(LastWriter(W) - 1,
                                  lengths[LastWriter(W)] - TABLESIZE)])

SlotOf(lengths, rc, maxlen, index) ==
    LET S == ShortWriters(lengths, rc, index)
        L == LongWriters(lengths, rc, index)
    IN  IF S # {} THEN Symbol(LastWriter(S) - 1, lengths[LastWriter(S)])
        ELSE IF L # {} THEN SecondaryOf(lengths, rc, maxlen, L)
        ELSE Nothing

RECURSIVE Slots(_, _, _, _, _)
Slots(lengths, rc, maxlen, lo, hi) ==
    IF lo = hi THEN <<SlotOf(lengths, rc, maxlen, lo)>>
    ELSE LET mid == (lo + hi) \div 2
         IN  Slots(lengths, rc, maxlen, lo, mid) \o Slots(lengths, rc, maxlen, mid + 1, hi)

\* put() on a slot that holds a Symbol: a long code whose primary slot an
\* earlier short code has written.
PutFails(lengths, rc) ==
    \E n \in DOMAIN lengths :
        /\ lengths[n] > TABLESIZE
        /\ \E m \in 1..(n - 1) :
              /\ lengths[m] # 0
              /\ lengths[m] <= TABLESIZE
              /\ (rc[n] % Pow2(TABLESIZE)) % Pow2(lengths[m]) = rc[m]

\* [ok, lut]: ok is FALSE when the construction ends the task.
BuildTable(lengths, rc, maxlen) ==
    IF PutFails(lengths, rc)
    THEN [ok |-> FALSE, lut |-> <<>>]
    ELSE [ok |-> TRUE, lut |-> Slots(lengths, rc, maxlen, 0, Pow2(TABLESIZE) - 1)]

table_from_lengths(lengths) ==
    BuildTable(lengths,
               ReversedCodes(lengths, next_code(lengths), 1, Len(lengths)),
               max_len(lengths))

\* table[index]
At(table, index) == table[index + 1]

\* create_fixed_tables: the two length vectors of a BTYPE=01 block.
RECURSIVE FixedLLFrom(_, _)
FixedLLFrom(lo, hi) ==
    IF lo = hi
    THEN <<IF lo < 144 THEN 8 ELSE IF lo < 256 THEN 9 ELSE IF lo < 280 THEN 7 ELSE 8>>
    ELSE LET mid == (lo + hi) \div 2
         IN  FixedLLFrom(lo, mid) \o FixedLLFrom(mid + 1, hi)

FixedLLLengths == FixedLLFrom(0, 287)

FixedDLengths ==
    <<5, 5, 5, 5, 5, 5, 5, 5, 5, 5, 5, 5, 5, 5, 5,
      5, 5, 5, 5, 5, 5, 5, 5, 5, 5, 5, 5, 5, 5, 5>>

\* create_fixed_tables: [ll, d], each the outcome of table_from_lengths.
create_fixed_tables ==
    [ll |-> table_from_lengths(FixedLLLengths), d |-> table_from_lengths(FixedDLengths)]

VARIABLES
    src,            \* the bytes the Reader r holds, fixed at construction
    h,              \* HuffReader: r (bytes taken from src), bits, num_bits
    buf,            \* Inflater.buf: every byte decoded so far
    pos,            \* Inflater.pos: the read cursor into buf
    final,          \* Inflater.final
    btype,          \* Inflater.btype
    block_length,   \* Inflater.block_length
    ctable,         \* Inflater.ctable
    lltable,        \* Inflater.lltable
    dtable,         \* Inflater.dtable
    fixed,          \* what create_fixed_tables builds, computed once
    task,           \* "running", or "failed" once fail!() has ended the task
    ret,            \* what the last call of read returned
    out,            \* history: the bytes the reads have returned, in order
    blk,            \* history: the block the last decoding read worked on
    refs,           \* history: the back-references expanded so far
    errored,        \* history: some read has returned an error
    huff,           \* a code-length vector, its table and what was decoded with it
    image,          \* the arguments of JPEGEncoder::encode: image, width, height, c
    enc,            \* JPEGEncoder: w (the bytes written), accumulator, nbits, tables
    trace           \* history: what the encoder's calls have written, and where

vars == <<src, h, buf, pos, final, btype, block_length, ctable, lltable, dtable,
          fixed, task, ret, out, blk, refs, errored, huff, image, enc, trace>>

\* The state of the JPEG encoder.
jvars == <<image, enc, trace>>

(***************************************************************************)
(* HuffReader (src/deflate.rs:338-411).  Each operation takes the reader   *)
(* record and returns [st, h, ...]: st is "Ok", "EndOfFile" (the io error  *)
(* read_u8 gives at the end of the source, passed on by try!) or "Fail"    *)
(* (the task has ended).  The record holds r, the number of bytes read    *)
(* from the source, and the history used, the number of bits consume and   *)
(* byte_align have taken.                                                  *)
(***************************************************************************)
\* push_byte with "=" for "|=": the bits not yet consumed are lost.
push_byte_over(bits, byte, num_bits) == byte * Pow2(num_bits)

\* self.bits |= byte << self.num_bits
push_byte(bits, byte, num_bits) == BitOr(bits, byte * Pow2(num_bits))

RECURSIVE guarantee(_, _)
guarantee(hr, n) ==
    IF hr.num_bits < n
    THEN IF hr.r >= Len(src)
         THEN [st |-> "EndOfFile", h |-> hr]
         ELSE guarantee([r        |-> hr.r + 1,
                         bits     |-> push_byte(hr.bits, src[hr.r + 1], hr.num_bits),
                         num_bits |-> U8(hr.num_bits + 8),
                         used     |-> hr.used], n)
    ELSE [st |-> "Ok", h |-> hr]

byte_align(hr) ==
    LET n == hr.bits % 8
    IN  [hr EXCEPT !.bits = hr.bits \div Pow2(n), !.num_bits = U8(hr.num_bits - n),
                   !.used = hr.used + n]

consume(hr, n) ==
    [hr EXCEPT !.bits = hr.bits \div Pow2(n), !.num_bits = U8(hr.num_bits - n),
               !.used = hr.used + n]

receive(hr, n) ==
    LET g == guarantee(hr, n)
    IN  IF g.st # "Ok"
        THEN [st |-> g.st, h |-> g.h, val |-> 0]
        ELSE [st |-> "Ok", h |-> consume(g.h, n), val |-> g.h.bits % Pow2(n)]

\* The match of decode_symbol's loop: the entry the low TABLESIZE bits
\* select, through its secondary table when it is a Table.
table_entry(hr, table) ==
    LET e == At(table, hr.bits % Pow2(TABLESIZE))
    IN  IF e.t = "Symbol" THEN [ok |-> TRUE, val |-> e.val, size |-> e.size]
        ELSE IF e.t = "Table"
        THEN LET sub == e.a[BitAnd(hr.bits \div Pow2(TABLESIZE), e.mask)]
             IN  IF sub.t = "Symbol"
                 THEN [ok |-> TRUE, val |-> sub.val, size |-> U8(sub.size + TABLESIZE)]
                 ELSE [ok |-> FALSE, val |-> 0, size |-> 0]
        ELSE [ok |-> FALSE, val |-> 0, size |-> 0]

RECURSIVE decode_loop(_, _)
decode_loop(hr, table) ==
    LET m == table_entry(hr, table)
    IN  IF ~m.ok THEN [st |-> "Fail", h |-> hr, val |-> 0]
        ELSE IF m.size <= hr.num_bits
        THEN [st |-> "Ok", h |-> consume(hr, m.size), val |-> m.val]
        ELSE LET g == guarantee(hr, m.size)
             IN  IF g.st # "Ok"
                 THEN [st |-> g.st, h |-> g.h, val |-> 0]
                 ELSE decode_loop(g.h, table)

\* decode_symbol with TABLESIZE bits fetched before the table is looked at.
decode_symbol_ahead(hr, table) ==
    LET g == guarantee(hr, TABLESIZE)
    IN  IF g.st # "Ok"
        THEN [st |-> g.st, h |-> g.h, val |-> 0]
        ELSE decode_loop(g.h, table)

decode_symbol(hr, table) ==
    LET g == guarantee(hr, 1)
    IN  IF g.st # "Ok"
        THEN [st |-> g.st, h |-> g.h, val |-> 0]
        ELSE decode_loop(g.h, table)

(***************************************************************************)
(* Inflater (src/deflate.rs:52-261).  The operations take the inflater as  *)
(* a record s of its fields (and the history refs) and return [st, s]:     *)
(* what a failed operation has already changed stays changed.              *)
(***************************************************************************)
eof(f, p, b) == f /\ p = Len(b)

\* try!(r) with r an error: the operation returns the error, the reader
\* left as the failed call left it.
try_failed(s, r) == [st |-> r.st, s |-> [s EXCEPT !.h = r.h]]

\* fail!() and indexing out of range: the task ends; hr is the reader.
task_failed(s, hr) == [st |-> "Fail", s |-> [s EXCEPT !.h = hr]]

\* read_stored_block_length after its second receive.
stored_length_set(s, len, nlen) ==
    IF nlen.st # "Ok" THEN try_failed(s, nlen)
    ELSE [st |-> "Ok", s |-> [s EXCEPT !.h = nlen.h, !.block_length = len.val]]

\* read_stored_block_length after its first receive.
stored_length_nlen(s, len) ==
    IF len.st # "Ok" THEN try_failed(s, len)
    ELSE stored_length_set(s, len, receive(len.h, 16))

read_stored_block_length(s) == stored_length_nlen(s, receive(byte_align(s.h), 16))

\* self.buf.push(a as u8); self.h.consume(8), a being what receive(8) gave.
stored_push(s, a) ==
    IF a.st # "Ok" THEN try_failed(s, a)
    ELSE [st |-> "Ok",
          s  |-> [s EXCEPT !.h = consume(a.h, 8), !.buf = Append(@, U8(a.val))]]

\* One turn of read_stored_block's loop; try! leaves the loop at the first
\* error, and the turns after it change nothing.
stored_byte(r) ==
    IF r.st # "Ok" THEN r ELSE stored_push(r.s, receive(r.s.h, 8))

\* k turns of the loop.  (Here and in the loops below the first half is
\* bound as the element of a one-element set, so that it is a value before
\* the second half starts.)
RECURSIVE stored_bytes(_, _)
stored_bytes(r, k) ==
    IF k = 0 THEN r
    ELSE IF k = 1 THEN stored_byte(r)
    ELSE CHOOSE y \in {stored_bytes(m, k - (k \div 2)) :
                          m \in {stored_bytes(r, k \div 2)}} : TRUE

\* self.block_length = 0; Ok(()) behind the loop.
stored_done(r) ==
    IF r.st # "Ok" THEN r ELSE [st |-> "Ok", s |-> [r.s EXCEPT !.block_length = 0]]

read_stored_block(s) ==
    stored_done(stored_bytes([st |-> "Ok", s |-> s], s.block_length))

\* copy_byte reading the last byte of the buffer, whatever the distance.
copy_last(c, index) ==
    IF ~c.ok THEN c
    ELSE IF index < 0 \/ index >= Len(c.buf) THEN [ok |-> FALSE, buf |-> c.buf]
    ELSE [ok |-> TRUE, buf |-> Append(c.buf, c.buf[Len(c.buf)])]

\* let s = buf[len - distance + i]; buf.push(s), index being len - distance
\* + i.  The index is unsigned: below zero it wraps past every buffer length
\* and the indexing ends the task.
copy_byte(c, index) ==
    IF ~c.ok THEN c
    ELSE IF index < 0 \/ index >= Len(c.buf) THEN [ok |-> FALSE, buf |-> c.buf]
    ELSE [ok |-> TRUE, buf |-> Append(c.buf, c.buf[index + 1])]

\* for i in range(0, length) { ... }, the turns lo .. hi - 1; first is
\* len - distance.
RECURSIVE copy_match(_, _, _, _)
copy_match(c, first, lo, hi) ==
    IF hi <= lo THEN c
    ELSE IF hi = lo + 1 THEN copy_byte(c, first + lo)
    ELSE CHOOSE y \in {copy_match(m, first, (lo + hi) \div 2, hi) :
                          m \in {copy_match(c, first, lo, (lo + hi) \div 2)}} : TRUE

\* The back-reference behind its copy loop, whose outcome is c; refs records
\* where it started, its length and distance, and the buffer before it.
reference_copied(s, length, distance, c) ==
    [st |-> IF c.ok THEN "Ok" ELSE "Fail",
     s  |-> [s EXCEPT !.buf = c.buf,
                      !.refs = Append(@, [at |-> Len(s.buf), length |-> length,
                                          distance |-> distance, ok |-> c.ok,
                                          pre |-> s.buf])]]

\* let len = self.buf.len(); for i in range(0, length) { ... }
reference_copy(s, length, distance) ==
    reference_copied(s, length, distance,
                     copy_match([ok |-> TRUE, buf |-> s.buf], Len(s.buf) - distance,
                                0, length))

\* let distance = DISTANCES[distance] + extra, dsym being the distance
\* symbol and dextra what receive gave for its extra bits.
reference_distance(s, length, dsym, dextra) ==
    IF dextra.st # "Ok" THEN try_failed(s, dextra)
    ELSE reference_copy([s EXCEPT !.h = dextra.h], length,
                        U16(DISTANCES[dsym + 1] + dextra.val))

\* let bits = EXTRA_DISTANCES[distance]; let extra = try!(receive(bits)), d
\* being what decode_symbol(self.dtable) gave.
reference_symbol(s, length, d) ==
    IF d.st # "Ok" THEN try_failed(s, d)
    ELSE IF d.val >= Len(EXTRA_DISTANCES) THEN task_failed(s, d.h)
    ELSE reference_distance(s, length, d.val, receive(d.h, EXTRA_DISTANCES[d.val + 1]))

\* let length = LENGTHS[length] + extra; let distance = try!(decode_symbol),
\* lidx being the length symbol - 257 and extra what receive gave.
reference_length(s, lidx, extra) ==
    IF extra.st # "Ok" THEN try_failed(s, extra)
    ELSE reference_symbol(s, U16(LENGTHS[lidx + 1] + extra.val),
                          decode_symbol(extra.h, s.dtable))

\* The arm "length @ 257 .. 285" of read_compressed_block; sym is the symbol.
back_reference(s, sym) ==
    reference_length(s, sym - 257, receive(s.h, EXTRA_LENGTHS[sym - 256]))

\* The loop of read_compressed_block goes on behind a back-reference m that
\* went well.
reference_done(m) == IF m.st # "Ok" THEN m ELSE [st |-> "Run", s |-> m.s]

\* match s { ... } in read_compressed_block, d being what decode_symbol gave.
symbol_arm(s, d) ==
    IF d.st # "Ok" THEN try_failed(s, d)
    ELSE IF d.val <= 255
    THEN [st |-> "Run", s |-> [s EXCEPT !.h = d.h, !.buf = Append(@, U8(d.val))]]
    ELSE IF d.val = 256 THEN [st |-> "Ok", s |-> [s EXCEPT !.h = d.h]]
    ELSE IF d.val <= 285 THEN reference_done(back_reference([s EXCEPT !.h = d.h], d.val))
    ELSE task_failed(s, d.h)

\* One turn of read_compressed_block's loop on x = [st, s]; st is "Run"
\* while the loop goes on.
compressed_turn(x) ==
    IF x.st # "Run" THEN x ELSE symbol_arm(x.s, decode_symbol(x.s.h, x.s.lltable))

RECURSIVE compressed_turns(_, _)
compressed_turns(x, n) ==
    IF n = 0 THEN x
    ELSE IF n = 1 THEN compressed_turn(x)
    ELSE CHOOSE y \in {IF m.st # "Run" THEN m ELSE compressed_turns(m, n - (n \div 2)) :
                          m \in {compressed_turns(x, n \div 2)}} : TRUE

\* loop { ... }: a turn takes at least one bit, so the loop is over within
\* as many turns as the reader has bits left to give.
read_compressed_block(s) ==
    compressed_turns([st |-> "Run", s |-> s],
                     s.h.num_bits + 8 * (Len(src) - s.h.r) + 1)

\* code_lengths[CODEORDER[i]] = length as u8, length being what receive(3)
\* gave; x = [st, h, cl].
code_length_set(x, i, length) ==
    IF length.st # "Ok" THEN [x EXCEPT !.st = length.st, !.h = length.h]
    ELSE [st |-> "Ok", h |-> length.h,
          cl |-> [x.cl EXCEPT ![CODEORDER[i + 1] + 1] = U8(length.val)]]

code_length_length(x, i) ==
    IF x.st # "Ok" THEN x ELSE code_length_set(x, i, receive(x.h, 3))

\* for i in range(0, hclen) { ... }, the turns lo .. hi - 1.
RECURSIVE code_length_lengths(_, _, _)
code_length_lengths(x, lo, hi) ==
    IF hi <= lo THEN x
    ELSE IF hi = lo + 1 THEN code_length_length(x, lo)
    ELSE CHOOSE y \in {code_length_lengths(m, (lo + hi) \div 2, hi) :
                          m \in {code_length_lengths(x, lo, (lo + hi) \div 2)}} : TRUE

\* The arm "16": all_lengths[i] = all_lengths[i - 1], repeat times.  Both
\* indexings are checked: i - 1 wraps below zero and i may pass the array.
RECURSIVE repeat_previous(_, _, _)
repeat_previous(al, i, repeat) ==
    IF repeat = 0 THEN [ok |-> TRUE, al |-> al, i |-> i]
    ELSE IF i = 0 \/ i - 1 >= Len(al) \/ i >= Len(al)
    THEN [ok |-> FALSE, al |-> al, i |-> i]
    ELSE repeat_previous([al EXCEPT ![i + 1] = al[i]], i + 1, repeat - 1)

\* The arm "16" behind its loop, whose outcome is rp; hr is the reader.
repeat_done(x, hr, rp) ==
    IF ~rp.ok THEN [x EXCEPT !.st = "Fail", !.h = hr, !.al = rp.al]
    ELSE [x EXCEPT !.h = hr, !.al = rp.al, !.i = rp.i]

\* The arm "16", r being what receive(2) gave.
repeat_arm(x, r) ==
    IF r.st # "Ok" THEN [x EXCEPT !.st = r.st, !.h = r.h]
    ELSE repeat_done(x, r.h, repeat_previous(x.al, x.i, 3 + r.val))

\* The arms "17" and "18": i += base + receive(n), r being what receive gave.
skip_arm(x, r, base) ==
    IF r.st # "Ok" THEN [x EXCEPT !.st = r.st, !.h = r.h]
    ELSE [x EXCEPT !.h = r.h, !.i = x.i + base + r.val]

\* match s { ... } in read_dynamic_tables, d being what decode_symbol gave.
length_symbol_arm(x, d) ==
    IF d.st # "Ok" THEN [x EXCEPT !.st = d.st, !.h = d.h]
    ELSE IF d.val <= 15
    THEN IF x.i >= Len(x.al) THEN [x EXCEPT !.st = "Fail", !.h = d.h]
         ELSE [x EXCEPT !.h = d.h, !.al[x.i + 1] = d.val, !.i = x.i + 1]
    ELSE IF d.val = 16 THEN repeat_arm(x, receive(d.h, 2))
    ELSE IF d.val = 17 THEN skip_arm(x, receive(d.h, 3), 3)
    ELSE IF d.val = 18 THEN skip_arm(x, receive(d.h, 7), 11)
    ELSE [x EXCEPT !.st = "Fail", !.h = d.h]

\* One turn of "while i < hlit + hdist" on x = [st, h, al, i]; st is "Run"
\* while the loop goes on.
code_lengths_turn(x, table, total) ==
    IF x.st # "Run" THEN x
    ELSE IF x.i >= total THEN [x EXCEPT !.st = "Ok"]
    ELSE length_symbol_arm(x, decode_symbol(x.h, table))

RECURSIVE code_lengths_turns(_, _, _, _)
code_lengths_turns(x, table, total, n) ==
    IF n = 0 THEN x
    ELSE IF n = 1 THEN code_lengths_turn(x, table, total)
    ELSE CHOOSE y \in {IF m.st # "Run" THEN m
                       ELSE code_lengths_turns(m, table, total, n - (n \div 2)) :
                          m \in {code_lengths_turns(x, table, total, n \div 2)}} : TRUE

\* while i < hlit + hdist { ... }: a turn moves i up, so total turns and the
\* one that finds i >= total end the loop.
code_lengths_loop(hr, table, al, total) ==
    code_lengths_turns([st |-> "Run", h |-> hr, al |-> al, i |-> 0], table, total,
                       total + 1)

\* slice::from_elem(n, 0u8)
RECURSIVE Zeros(_)
Zeros(n) ==
    IF n = 0 THEN <<>>
    ELSE IF n = 1 THEN <<0>>
    ELSE Zeros(n \div 2) \o Zeros(n - (n \div 2))

\* self.dtable = table_from_lengths(d_lengths); Ok(()), d being the table.
dtable_set(s, d) ==
    IF ~d.ok THEN [st |-> "Fail", s |-> s]
    ELSE [st |-> "Ok", s |-> [s EXCEPT !.dtable = d.lut]]

\* self.lltable = table_from_lengths(ll_lengths), ll being the table.
lltable_set(s, ll, d_lengths) ==
    IF ~ll.ok THEN [st |-> "Fail", s |-> s]
    ELSE dtable_set([s EXCEPT !.lltable = ll.lut], table_from_lengths(d_lengths))

\* History: s with what the while loop of read_dynamic_tables left, r being
\* its outcome: how it ended, all_lengths, i, and hlit and hdist.
lengths_noted(s, r, hlit, hdist) ==
    [s EXCEPT !.dyn = [st |-> r.st, al |-> r.al, i |-> r.i, hlit |-> hlit,
                       hdist |-> hdist]]

\* The end of read_dynamic_tables: the split of all_lengths and the two
\* tables built from its parts; r is the outcome of the while loop.
split_tables(s, r, hlit, hdist) ==
    IF r.st # "Ok" THEN try_failed(lengths_noted(s, r, hlit, hdist), r)
    ELSE lltable_set([lengths_noted(s, r, hlit, hdist) EXCEPT !.h = r.h],
                     table_from_lengths(SubSeq(r.al, 1, hlit)),
                     SubSeq(r.al, hlit + 1, Len(r.al)))

\* self.ctable = table_from_lengths(code_lengths), ct being the table, and
\* the while loop; hr is the reader.
ctable_set(s, hr, ct, hlit, hdist) ==
    IF ~ct.ok THEN task_failed(s, hr)
    ELSE split_tables([s EXCEPT !.ctable = ct.lut],
                      code_lengths_loop(hr, ct.lut,
                                        Zeros(LITERALLENGTHCODES + DISTANCECODES),
                                        hlit + hdist),
                      hlit, hdist)

\* read_dynamic_tables behind the loop of code_lengths, whose outcome is c.
code_lengths_read(s, c, hlit, hdist) ==
    IF c.st # "Ok" THEN try_failed(s, c)
    ELSE ctable_set(s, c.h, table_from_lengths(c.cl), hlit, hdist)

\* read_dynamic_tables behind receive(4), which gave hclen.
hclen_read(s, hlit, hdist, hclen) ==
    IF hclen.st # "Ok" THEN try_failed(s, hclen)
    ELSE code_lengths_read(s,
                           code_length_lengths([st |-> "Ok", h |-> hclen.h,
                                                cl |-> Zeros(Len(CODEORDER))],
                                               0, hclen.val + 4),
                           hlit, hdist)

\* read_dynamic_tables behind the second receive(5), which gave hdist.
hdist_read(s, hlit, hdist) ==
    IF hdist.st # "Ok" THEN try_failed(s, hdist)
    ELSE hclen_read(s, hlit, hdist.val + 1, receive(hdist.h, 4))

\* read_dynamic_tables behind the first receive(5), which gave hlit.
hlit_read(s, hlit) ==
    IF hlit.st # "Ok" THEN try_failed(s, hlit)
    ELSE hdist_read(s, hlit.val + 257, receive(hlit.h, 5))

read_dynamic_tables(s) == hlit_read(s, receive(s.h, 5))

\* self.btype = t behind the call r of an arm of read_block_type.
btype_set(r, t) ==
    IF r.st # "Ok" THEN r ELSE [st |-> "Ok", s |-> [r.s EXCEPT !.btype = t]]

\* The match on BTYPE in read_block_type; s.h is past the three header bits.
block_type_arm(s, bits) ==
    IF bits = 0 THEN btype_set(read_stored_block_length(s), "Stored")
    ELSE IF bits = 1
    THEN IF ~fixed.ll.ok \/ ~fixed.d.ok THEN [st |-> "Fail", s |-> s]
         ELSE [st |-> "Ok",
               s  |-> [s EXCEPT !.lltable = fixed.ll.lut, !.dtable = fixed.d.lut,
                                !.btype = "Compressed"]]
    ELSE IF bits = 2 THEN btype_set(read_dynamic_tables(s), "Compressed")
    ELSE [st |-> "Fail", s |-> s]

\* What read_block_type gives: [st, s, hdr, bt, hb], r being [st, s]; hdr
\* tells that BFINAL and BTYPE were both received, bt is the BTYPE received
\* and hb the source position behind the header.
header_result(r, hdr, bt, hb) ==
    [st |-> r.st, s |-> r.s, hdr |-> hdr, bt |-> bt, hb |-> hb]

\* read_block_type behind receive(2), which gave bits.
btype_read(s, bits) ==
    IF bits.st # "Ok" THEN header_result(try_failed(s, bits), FALSE, 0, 0)
    ELSE header_result(block_type_arm([s EXCEPT !.h = bits.h], bits.val), TRUE,
                       bits.val, bits.h.r)

\* read_block_type behind receive(1), which gave f: self.final = final == 1.
final_read(s, f) ==
    IF f.st # "Ok" THEN header_result(try_failed(s, f), FALSE, 0, 0)
    ELSE btype_read([s EXCEPT !.h = f.h, !.final = (f.val = 1)], receive(f.h, 2))

read_block_type(s) == final_read(s, receive(s.h, 1))

\* What decode_block gives: the outcome b of the block with the history of
\* its header t; body tells that the body was started.
block_result(t, b, body) ==
    [st |-> b.st, s |-> b.s, hdr |-> t.hdr, bt |-> t.bt, hb |-> t.hb, body |-> body]

\* match self.btype { ... } in read, t being what read_block_type gave.
block_body(t) ==
    IF t.st # "Ok" THEN block_result(t, t, FALSE)
    ELSE IF t.s.btype = "Stored" THEN block_result(t, read_stored_block(t.s), TRUE)
    ELSE block_result(t, read_compressed_block(t.s), TRUE)

\* The new block of read: read_block_type, then the block's body.
decode_block(s) == block_body(read_block_type(s))

\* copy_count with the buffered bytes counted one short.
copy_short(outlen, available) ==
    Min(outlen, IF available = 0 THEN 0 ELSE available - 1)

\* cmp::min(buf.len(), self.buf.len() - self.pos): the bytes one read copies.
copy_count(outlen, available) == Min(outlen, available)

(***************************************************************************)
(* The sources the model runs on.  A source is a byte string: the packed   *)
(* bits of a sequence of fixed-Huffman blocks written with the codes of    *)
(* the fixed tables, cut short by up to MaxCut bytes, or one of the        *)
(* vectors listed in Vectors (stored, reserved and dynamic blocks, the     *)
(* scenarios of the specification).                                        *)
(***************************************************************************)
MaxOut == 2      \* the longest slice a read is given

MaxItems == 4    \* block headers and symbols of a generated source

MaxCut == 1      \* bytes cut off the end of a generated source

\* The n low bits of v, least significant first: the order receive reads.
RECURSIVE ValueBits(_, _)
ValueBits(v, n) == IF n = 0 THEN <<>> ELSE <<v % 2>> \o ValueBits(v \div 2, n - 1)

\* The bits decode_symbol maps to sym under table (a code of len bits).
CodeBits(table, sym, len) ==
    ValueBits(CHOOSE i \in 0..(Pow2(len) - 1) : At(table, i) = Symbol(sym, len), len)

LLBits(sym) == CodeBits(fixed.ll.lut, sym, FixedLLLengths[sym + 1])

DBits(sym) == CodeBits(fixed.d.lut, sym, FixedDLengths[sym + 1])

Lit(v) == [k |-> "lit", sym |-> v, xl |-> 0, dsym |-> 0, xd |-> 0]

Ref(lsym, xl, dsym, xd) == [k |-> "ref", sym |-> lsym, xl |-> xl, dsym |-> dsym, xd |-> xd]

\* The literals 'a' and 'b', and the back-references (4, 2) and
\* (11 + 1, 5 + 1).
Tokens == {Lit(97), Lit(98), Ref(258, 0, 1, 0), Ref(265, 1, 4, 1)}

TokenBits(t) ==
    IF t.k = "lit" THEN LLBits(t.sym)
    ELSE LLBits(t.sym) \o ValueBits(t.xl, EXTRA_LENGTHS[t.sym - 256])
         \o DBits(t.dsym) \o ValueBits(t.xd, EXTRA_DISTANCES[t.dsym + 1])

RECURSIVE BodiesOf(_)
BodiesOf(n) ==
    IF n = 0 THEN {<<>>}
    ELSE {TokenBits(t) \o b : t \in Tokens, b \in BodiesOf(n - 1)}

\* The bit strings of block sequences with at most n headers and symbols;
\* every block is BFINAL, BTYPE=01, its symbols, end of block.
RECURSIVE StreamBits(_)
StreamBits(n) ==
    IF n <= 0 THEN {<<>>}
    ELSE {<<>>} \cup
         UNION {{<<f, 1, 0>> \o b \o LLBits(256) \o rest :
                    f \in {0, 1}, b \in BodiesOf(w), rest \in StreamBits(n - 1 - w)} :
                w \in 0..(n - 1)}

RECURSIVE PackBytes(_)
PackBytes(bits) ==
    IF Len(bits) = 0 THEN <<>>
    ELSE LET byte == [k \in 1..8 |-> IF k <= Len(bits) THEN bits[k] * Pow2(k - 1) ELSE 0]
         IN  <<byte[1] + byte[2] + byte[3] + byte[4] + byte[5] + byte[6] + byte[7] + byte[8]>>
             \o PackBytes(SubSeq(bits, 9, Len(bits)))

Cut(bytes, c) == SubSeq(bytes, 1, Len(bytes) - c)

Generated == {Cut(PackBytes(b), c) : b \in StreamBits(MaxItems), c \in 0..MaxCut}

HelloF2 == <<242, 72, 205, 201, 201, 7, 0>>

HelloF3 == <<243, 72, 205, 201, 201, 7, 0>>

StoredABC == <<1, 3, 0, 252, 255, 170, 187, 204>>

\* One final block with BTYPE=10 and literal codes only: "abc" 32 times.
DynamicABC ==
    <<5, 193, 1, 1, 0, 0, 0, 64, 160, 173, 248, 255, 65, 97, 24, 134, 97, 24, 134,
      97, 24, 134, 97, 24, 134, 97, 24, 134, 97, 24, 134, 97, 24, 134, 97, 24, 134, 13>>

Vectors ==
    { HelloF2, HelloF3, StoredABC, DynamicABC,
      <<1, 3, 0, 252, 255, 170>>,          \* StoredABC cut inside its body
      <<41, 3, 0, 252, 255, 170, 187, 204>>, \* stored, header bits 3..5 = 101
      <<41, 1, 0, 254, 255, 170>>,
      <<0, 0, 0, 255, 255, 243, 72, 205, 201, 201, 7, 0>>, \* empty stored, HelloF3
      <<75, 132, 2, 0>>,                   \* 'a', (7, 1), end of block
      <<74, 4, 44, 9, 0>>,                 \* two blocks: 'a' | 'b', final
      <<75, 28, 3, 0>>,                    \* 'a', length symbol 286
      <<75, 4, 62, 0>>,                    \* 'a', (3, distance code 30)
      <<74, 4, 14>>,                       \* 'a', cut in the second header
      <<7>>, <<6, 0>>, <<74, 4, 28>> }     \* BTYPE=11, first and after a block

Streams == Generated \cup Vectors

(***************************************************************************)
(* The state after Inflater::new, and Reader::read.                        *)
(***************************************************************************)
\* History: no while loop of read_dynamic_tables was run.
NoLengths == [st |-> "None", al |-> <<>>, i |-> 0, hlit |-> 0, hdist |-> 0]

Self ==
    [h |-> h, buf |-> buf, final |-> final, btype |-> btype,
     block_length |-> block_length, ctable |-> ctable, lltable |-> lltable,
     dtable |-> dtable, refs |-> refs, dyn |-> NoLengths]

\* blk before the first block: n counts the block headers received, st is
\* how the block's decoding ended, and at is the length of buf before it.
NoBlock == [n |-> 0, st |-> "None", hdr |-> FALSE, bt |-> 0, hb |-> 0, body |-> FALSE,
            at |-> 0, dyn |-> NoLengths]

\* huff when no code-length vector is at hand.
NoAlign ==
    [done |-> FALSE, before |-> [r |-> 0, bits |-> 0, num_bits |-> 0, used |-> 0],
     after |-> [r |-> 0, bits |-> 0, num_bits |-> 0, used |-> 0]]

NoCode == [lengths |-> <<>>, symbols |-> <<>>, built |-> "None", table |-> <<>>,
           decoded |-> <<>>, aligned |-> NoAlign]

\* image, enc and trace where no JPEG encoder is at hand.
NoImage == [c |-> "None", width |-> 0, height |-> 0, pixels |-> <<>>]

NoEncoder ==
    [w |-> <<>>, accumulator |-> <<>>, nbits |-> 0, luma_dctable |-> <<>>,
     luma_actable |-> <<>>, chroma_dctable |-> <<>>, chroma_actable |-> <<>>]

\* trace before any call: st is how the last call ended, segs the markers
\* written with the length of w before each, blocks the blocks written,
\* pushed the bits given to write_bits, scan_at the length of w before the
\* first of them, scan_nbits and scan_acc the fields nbits and accumulator
\* at that point, calls the number of calls made.
NoTrace == [st |-> "None", segs |-> <<>>, blocks |-> <<>>, pushed |-> <<>>,
            scan_at |-> 0, scan_nbits |-> 0, scan_acc |-> <<>>, calls |-> 0]

Init ==
    /\ fixed = create_fixed_tables
    /\ src \in Streams
    /\ h = [r |-> 0, bits |-> 0, num_bits |-> 0, used |-> 0]
    /\ buf = <<>>
    /\ pos = 0
    /\ final = FALSE
    /\ btype = "Stored"
    /\ block_length = 0
    /\ ctable = <<>>
    /\ lltable = <<>>
    /\ dtable = <<>>
    /\ task = "running"
    /\ ret = [kind |-> "None", err |-> "", n |-> 0, bytes |-> <<>>, req |-> 0]
    /\ out = <<>>
    /\ blk = NoBlock
    /\ refs = <<>>
    /\ errored = FALSE
    /\ huff = NoCode
    /\ image = NoImage
    /\ enc = NoEncoder
    /\ trace = NoTrace

\* What blk records when read has started a new block, d being what
\* decode_block gave.
filled(d) ==
    [n |-> blk.n + (IF d.hdr THEN 1 ELSE 0), st |-> d.st, hdr |-> d.hdr, bt |-> d.bt,
     hb |-> d.hb, body |-> d.body, at |-> Len(buf), dyn |-> d.s.dyn]

\* read behind a new block d.
block_started(d) == [st |-> d.st, s |-> d.s, new |-> TRUE, fill |-> filled(d)]

\* before_copy without the test of final.
before_copy_again(s) ==
    IF pos = Len(buf) THEN block_started(decode_block(s))
    ELSE [st |-> "Ok", s |-> s, new |-> FALSE, fill |-> NoBlock]

\* The part of read before the copy: [st, s, new, fill], with new telling
\* that a new block was started and fill what blk records of it.
before_copy(s) ==
    IF pos = Len(buf)
    THEN IF final
         THEN [st |-> "EndOfFile", s |-> s, new |-> FALSE, fill |-> NoBlock]
         ELSE block_started(decode_block(s))
    ELSE [st |-> "Ok", s |-> s, new |-> FALSE, fill |-> NoBlock]

\* What read returns: Ok(n) with the n bytes written to the slice, Err(e),
\* or nothing when the task has ended.
returned(d, outlen, n) ==
    IF d.st = "Ok"
    THEN [kind |-> "Ok", err |-> "", n |-> n,
          bytes |-> SubSeq(d.s.buf, pos + 1, pos + n), req |-> outlen]
    ELSE IF d.st = "Fail"
    THEN [kind |-> "Fail", err |-> "", n |-> 0, bytes |-> <<>>, req |-> outlen]
    ELSE [kind |-> "Err", err |-> d.st, n |-> 0, bytes |-> <<>>, req |-> outlen]

\* read behind before_copy, which gave d; n is the count of bytes to copy.
copy_out(d, outlen, n) ==
    /\ h' = d.s.h
    /\ buf' = d.s.buf
    /\ final' = d.s.final
    /\ btype' = d.s.btype
    /\ block_length' = d.s.block_length
    /\ ctable' = d.s.ctable
    /\ lltable' = d.s.lltable
    /\ dtable' = d.s.dtable
    /\ refs' = d.s.refs
    /\ pos' = IF d.st = "Ok" THEN pos + n ELSE pos
    /\ ret' = returned(d, outlen, n)
    /\ out' = IF d.st = "Ok" THEN out \o SubSeq(d.s.buf, pos + 1, pos + n) ELSE out
    /\ task' = IF d.st = "Fail" THEN "failed" ELSE "running"
    /\ blk' = IF d.new THEN d.fill ELSE blk
    /\ errored' = (errored \/ (d.new /\ d.st = "EndOfFile"))
    /\ UNCHANGED <<src, fixed, huff, jvars>>

\* read with the count taken from what before_copy left in the buffer.
read_slice(d, outlen) == copy_out(d, outlen, copy_count(outlen, Len(d.s.buf) - pos))

\* fn read(&mut self, buf: &mut [u8]) -> IoResult<uint>, buf of any length
\* up to MaxOut.
Read ==
    /\ task = "running"
    /\ \E outlen \in 0..MaxOut : read_slice(before_copy(Self), outlen)

Next == Read

Spec == Init /\ [][Next]_vars

(***************************************************************************)
(* Properties of Inflater.                                                 *)
(***************************************************************************)
Hello == <<72, 101, 108, 108, 111>>

IsPrefix(a, b) == Len(a) <= Len(b) /\ SubSeq(b, 1, Len(a)) = a

\* C1: the reads return the decoded bytes in decoding order, each byte once
\* (the bytes returned so far are buf up to the cursor, and buf only grows);
\* a read made while unread bytes are buffered returns min(out.len,
\* available) of them, moves the cursor by that count, and leaves the source
\* position, the buffer and the block history alone, so that a new block is
\* started only from a drained buffer.
ReadDelivers ==
    [][ /\ IsPrefix(buf, buf')
        /\ pos' <= Len(buf')
        /\ out' = SubSeq(buf', 1, pos')
        /\ pos < Len(buf) =>
             /\ ret'.kind = "Ok"
             /\ ret'.n = Min(ret'.req, Len(buf) - pos)
             /\ ret'.bytes = SubSeq(buf, pos + 1, pos + ret'.n)
             /\ pos' = pos + ret'.n
             /\ h' = h /\ buf' = buf /\ blk' = blk ]_vars

\* Two blocks decoded and read to the end, the last read getting one byte
\* for a slice of two.
ReadDeliversWitness ==
    /\ task = "running" /\ final /\ blk.st = "Ok" /\ blk.n >= 2
    /\ pos = Len(buf) /\ out = buf /\ Len(out) >= 2
    /\ ret.kind = "Ok" /\ ret.n = 1 /\ ret.req = 2

\* The block with BFINAL=1 has ended and all bytes are read.
Done == final /\ blk.st = "Ok" /\ pos = Len(buf)

\* C2: from Done on, eof() is true and a read returns EndOfFile and changes
\* neither the reader (no byte is taken from the source), nor the buffer,
\* the cursor, final or the block history; so the state after it is Done
\* again, for every later read.
DoneStays ==
    [][ Done => /\ eof(final, pos, buf)
                /\ ret'.kind = "Err" /\ ret'.err = "EndOfFile"
                /\ h' = h /\ buf' = buf /\ pos' = pos /\ final' = final
                /\ blk' = blk ]_vars

\* A read has returned EndOfFile in Done, with source bytes still unread.
DoneStaysWitness ==
    /\ Done /\ ret.kind = "Err" /\ ret.err = "EndOfFile"
    /\ Len(out) > 0 /\ h.r < Len(src)

\* C3 (as the code has it): from the first read on, the source F2 48 CD C9
\* C9 07 00 has decoded to exactly 48 65 6C 6C 6F, read in this order; its
\* header has BFINAL=0, so eof() stays false, also once the five bytes are
\* read.  For F3 48 CD C9 C9 07 00, the same block with BFINAL=1, eof() is
\* true exactly when the five bytes are read.
HelloDecodes ==
    /\ src = HelloF2 /\ ret.kind # "None" =>
         /\ buf = Hello /\ IsPrefix(out, Hello) /\ task = "running"
         /\ ~eof(final, pos, buf)
    /\ src = HelloF3 /\ ret.kind # "None" =>
         /\ buf = Hello /\ IsPrefix(out, Hello) /\ task = "running"
         /\ eof(final, pos, buf) <=> out = Hello

\* The five bytes of F2 48 CD C9 C9 07 00 are read and eof() is false.
HelloDecodesWitness ==
    src = HelloF2 /\ out = Hello /\ pos = 5 /\ ~eof(final, pos, buf)

\* C3 as stated: F2 48 CD C9 C9 07 00 decodes to 48 65 6C 6C 6F and eof()
\* is true once the five bytes are read.
HelloThenEof ==
    src = HelloF2 /\ ret.kind # "None" =>
        /\ buf = Hello /\ IsPrefix(out, Hello)
        /\ Len(out) = 5 => eof(final, pos, buf)

\* LEN of the stored block whose header ends at source position blk.hb.
StoredLen == src[blk.hb + 1] + 256 * src[blk.hb + 2]

\* The last block is stored and the source holds all of it.
StoredWhole ==
    /\ blk.hdr /\ blk.bt = 0
    /\ Len(src) >= blk.hb + 4
    /\ Len(src) >= blk.hb + 4 + StoredLen

\* The last block is stored and the source ends inside it.
StoredCut ==
    /\ blk.hdr /\ blk.bt = 0
    /\ \/ Len(src) < blk.hb + 4
       \/ Len(src) < blk.hb + 4 + StoredLen

\* C4: a stored block appends exactly the LEN source bytes behind LEN and
\* ~LEN, in order, and leaves the reader 4 + LEN bytes behind the header
\* byte; 01 03 00 FC FF AA BB CC decodes to AA BB CC.
StoredVerbatim ==
    /\ StoredWhole =>
         /\ blk.st = "Ok"
         /\ SubSeq(buf, blk.at + 1, Len(buf)) =
                SubSeq(src, blk.hb + 5, blk.hb + 4 + StoredLen)
         /\ h.r = blk.hb + 4 + StoredLen
    /\ src = StoredABC /\ ret.kind # "None" => buf = <<170, 187, 204>>

\* C5: every back-reference with 1 <= distance <= size of the output has
\* appended length bytes, the k-th equal to the byte distance places before
\* it (so the bytes it has itself appended are copied on when distance <
\* length), and has left the bytes before them as they were; 'a' followed
\* by (7, 1) gives eight 'a'.
CopyReplicates ==
    /\ \A i \in DOMAIN refs :
         LET r == refs[i]
         IN  (1 <= r.distance /\ r.distance <= r.at) =>
               /\ r.ok
               /\ Len(buf) >= r.at + r.length
               /\ SubSeq(buf, 1, r.at) = r.pre
               /\ \A k \in 1..r.length : buf[r.at + k] = buf[r.at + k - r.distance]
    /\ src = <<75, 132, 2, 0>> /\ ret.kind # "None" =>
         buf = <<97, 97, 97, 97, 97, 97, 97, 97>>

\* A back-reference with distance < length over two different bytes.
CopyReplicatesWitness ==
    \E i \in DOMAIN refs :
        /\ refs[i].ok /\ refs[i].distance < refs[i].length
        /\ refs[i].at >= 2 /\ buf[refs[i].at] # buf[refs[i].at - 1]
        /\ Len(buf) >= refs[i].at + refs[i].length

\* C6: a read of a stored block that the source ends inside of ends with the
\* error of the source's end and not with success.
TruncatedFails == StoredCut => blk.st = "EndOfFile" /\ ret.kind # "Ok"

\* C7: a back-reference with a distance beyond the bytes in the buffer makes
\* read return an error value, the task going on, and appends nothing.
FarDistanceIsError ==
    \A i \in DOMAIN refs :
        refs[i].distance > refs[i].at =>
            /\ ret.kind = "Err" /\ task = "running"
            /\ Len(buf) = refs[i].at

\* C8: a header with BTYPE=11 makes read return an error value, the task
\* going on.
ReservedIsError == blk.hdr /\ blk.bt = 3 => ret.kind = "Err" /\ task = "running"

\* C9: the bytes decoded before a failure are read before the error is
\* seen: when a read gives an error, no decoded byte is still unread.
BytesBeforeError == ret.kind \in {"Err", "Fail"} => pos = Len(buf)

\* C10: once a read has returned a decoding error, no read receives a block
\* header or appends to the buffer.
ErrorEndsDecoding == [][errored => blk' = blk /\ buf' = buf]_vars

(***************************************************************************)
(* Code tables on their own: table_from_lengths, decode_symbol and         *)
(* byte_align applied to a code-length vector and to the bits a canonical  *)
(* encoder (RFC 1951, 3.2.2) gives for a sequence of its symbols.          *)
(***************************************************************************)
MaxSyms == 3      \* the longest code-length vector drawn entry by entry

MaxSymbols == 2   \* the longest symbol sequence encoded

\* The lengths the drawn vectors are made of: unused, short codes, and codes
\* longer than TABLESIZE.
LenAlphabet == {0, 1, 2, 10, 11}

\* 256 codes of 9 bits and four of 10: at most 2^9 codes of 9 bits exist,
\* so the vector satisfies Kraft's inequality.
ManyNines == [i \in 1..260 |-> IF i <= 256 THEN 9 ELSE 10]

LengthVectors == UNION {[1..n -> LenAlphabet] : n \in 1..MaxSyms} \cup {ManyNines}

\* The number of symbols of a length, as a number (not as the u8 of bl_count).
CodeCount(lengths, len) == Cardinality({i \in DOMAIN lengths : lengths[i] = len})

\* The first code of a length: RFC 1951, 3.2.2, step 2.
RECURSIVE FirstCode(_, _)
FirstCode(lengths, bits) ==
    IF bits <= 1 THEN 0
    ELSE (FirstCode(lengths, bits - 1) + CodeCount(lengths, bits - 1)) * 2

\* The code of symbol sym (from 0): RFC 1951, 3.2.2, step 3.
canonical_code(lengths, sym) ==
    FirstCode(lengths, lengths[sym + 1])
        + Cardinality({j \in 1..sym : lengths[j] = lengths[sym + 1]})

\* The bits of a code in the order they are sent: most significant first,
\* each bit put in the next higher bit of the byte.
SentBits(code, len) == [k \in 1..len |-> (code \div Pow2(len - k)) % 2]

RECURSIVE Encoded(_, _)
Encoded(lengths, symbols) ==
    IF symbols = <<>> THEN <<>>
    ELSE SentBits(canonical_code(lengths, Head(symbols)), lengths[Head(symbols) + 1])
         \o Encoded(lengths, Tail(symbols))

RECURSIVE KraftSum(_, _)
KraftSum(lengths, len) ==
    IF len = 0 THEN 0
    ELSE CodeCount(lengths, len) * Pow2(15 - len) + KraftSum(lengths, len - 1)

\* Kraft's inequality: the sum of 2^-len over the codes is at most 1.
Kraft(lengths) == KraftSum(lengths, 15) <= Pow2(15)

\* The symbols sequences are drawn from: the first and the last ones that
\* have a code.
Drawn(lengths) ==
    {s \in 0..(Len(lengths) - 1) :
        /\ lengths[s + 1] # 0
        /\ s < MaxSyms \/ s >= Len(lengths) - 2}

SymbolSeqs(lengths) == UNION {[1..k -> Drawn(lengths)] : k \in 0..MaxSymbols}

InitHuff ==
    /\ fixed = create_fixed_tables
    /\ \E l \in LengthVectors : \E s \in SymbolSeqs(l) :
          /\ huff = [NoCode EXCEPT !.lengths = l, !.symbols = s]
          /\ src = PackBytes(Encoded(l, s))
    /\ h = [r |-> 0, bits |-> 0, num_bits |-> 0, used |-> 0]
    /\ buf = <<>>
    /\ pos = 0
    /\ final = FALSE
    /\ btype = "Stored"
    /\ block_length = 0
    /\ ctable = <<>>
    /\ lltable = <<>>
    /\ dtable = <<>>
    /\ task = "running"
    /\ ret = [kind |-> "None", err |-> "", n |-> 0, bytes |-> <<>>, req |-> 0]
    /\ out = <<>>
    /\ blk = NoBlock
    /\ refs = <<>>
    /\ errored = FALSE
    /\ image = NoImage
    /\ enc = NoEncoder
    /\ trace = NoTrace

\* huff and task behind table_from_lengths, which gave t.
table_built(t) ==
    /\ huff' = [huff EXCEPT !.built = IF t.ok THEN "Ok" ELSE "Fail", !.table = t.lut]
    /\ task' = IF t.ok THEN "running" ELSE "failed"

\* fn table_from_lengths(lengths: &[u8]) -> ~[TableElement]
TableFromLengths ==
    /\ task = "running"
    /\ huff.built = "None"
    /\ table_built(table_from_lengths(huff.lengths))
    /\ UNCHANGED <<src, h, buf, pos, final, btype, block_length, ctable, lltable,
                   dtable, fixed, ret, out, blk, refs, errored, jvars>>

\* The bits a reader has taken from the logical stream.
bits_taken(hr) == 8 * hr.r - hr.num_bits

\* h, huff and task behind decode_symbol, which gave d.
symbol_decoded(d) ==
    /\ h' = d.h
    /\ huff' = [huff EXCEPT !.decoded =
                   Append(@, [st |-> d.st, val |-> d.val,
                              bits |-> bits_taken(d.h) - bits_taken(h)])]
    /\ task' = IF d.st = "Fail" THEN "failed" ELSE "running"

\* pub fn decode_symbol(&mut self, table: &[TableElement]) -> IoResult<u16>
DecodeSymbol ==
    /\ task = "running"
    /\ huff.built = "Ok"
    /\ ~huff.aligned.done
    /\ Len(huff.decoded) < Len(huff.symbols)
    /\ \A i \in DOMAIN huff.decoded : huff.decoded[i].st = "Ok"
    /\ symbol_decoded(decode_symbol(h, huff.table))
    /\ UNCHANGED <<src, buf, pos, final, btype, block_length, ctable, lltable,
                   dtable, fixed, ret, out, blk, refs, errored, jvars>>

\* pub fn byte_align(&mut self)
ByteAlign ==
    /\ task = "running"
    /\ ~huff.aligned.done
    /\ h' = byte_align(h)
    /\ huff' = [huff EXCEPT !.aligned = [done |-> TRUE, before |-> h,
                                         after |-> byte_align(h)]]
    /\ UNCHANGED <<src, buf, pos, final, btype, block_length, ctable, lltable,
                   dtable, fixed, task, ret, out, blk, refs, errored, jvars>>

NextHuff == TableFromLengths \/ DecodeSymbol \/ ByteAlign

SpecHuff == InitHuff /\ [][NextHuff]_vars

\* C11: with a code-length vector that satisfies Kraft's inequality the
\* table is built, and every symbol decoded from the canonical encoder's
\* bits is the symbol encoded, taking exactly its code's length in bits.
RoundTrip ==
    Kraft(huff.lengths) /\ huff.built # "None" =>
        /\ huff.built = "Ok"
        /\ \A i \in DOMAIN huff.decoded :
              /\ huff.decoded[i].st = "Ok"
              /\ huff.decoded[i].val = huff.symbols[i]
              /\ huff.decoded[i].bits = huff.lengths[huff.symbols[i] + 1]

\* The round trip of the vectors with fewer than 256 symbols of every length.
RoundTripNarrow ==
    huff.lengths # ManyNines => RoundTrip

\* C19: byte_align drops num_bits mod 8 bits, whatever the pending bits are:
\* the bits left are a multiple of 8 and no more bits are dropped than held.
ByteAlignDrops ==
    huff.aligned.done =>
        /\ huff.aligned.after.num_bits % 8 = 0
        /\ huff.aligned.before.num_bits - huff.aligned.after.num_bits
               = huff.aligned.before.num_bits % 8

\* Two symbols claim one slot: two short codes one primary slot, a short and
\* a long code one primary slot, or two long codes one secondary slot.
Collide(lengths, rc) ==
    \E index \in 0..(Pow2(TABLESIZE) - 1) :
        \/ Cardinality(ShortWriters(lengths, rc, index)) >= 2
        \/ /\ ShortWriters(lengths, rc, index) # {}
           /\ LongWriters(lengths, rc, index) # {}
        \/ \E m, n \in LongWriters(lengths, rc, index) :
              /\ m < n
              /\ \E k \in 0..(Pow2(U8(max_len(lengths) - TABLESIZE)) - 1) :
                    /\ k % Pow2(lengths[m] - TABLESIZE) = rc[m] \div Pow2(TABLESIZE)
                    /\ k % Pow2(lengths[n] - TABLESIZE) = rc[n] \div Pow2(TABLESIZE)

\* C20: a length vector whose symbols collide in the table is rejected with
\* the error CorruptedBitstream when the table is built.
CollisionIsError ==
    /\ huff.built # "None"
    /\ ~Kraft(huff.lengths)
    /\ Collide(huff.lengths,
               ReversedCodes(huff.lengths, next_code(huff.lengths), 1, Len(huff.lengths)))
    => huff.built = "CorruptedBitstream"

(***************************************************************************)
(* The JPEG encoder (src/codecs/jpeg/encoder.rs).  Tables are held as      *)
(* tuples, entry i at position i + 1.                                      *)
(***************************************************************************)
SOF0 == 192

DHT == 196

SOI == 216

EOI == 217

SOS == 218

DQT == 219

APP0 == 224

STD_LUMA_QTABLE ==
    <<16, 11, 10, 16, 124, 140, 151, 161,
      12, 12, 14, 19, 126, 158, 160, 155,
      14, 13, 16, 24, 140, 157, 169, 156,
      14, 17, 22, 29, 151, 187, 180, 162,
      18, 22, 37, 56, 168, 109, 103, 177,
      24, 35, 55, 64, 181, 104, 113, 192,
      49, 64, 78, 87, 103, 121, 120, 101,
      72, 92, 95, 98, 112, 100, 103, 199>>

STD_CHROMA_QTABLE ==
    <<17, 18, 24, 47, 99, 99, 99, 99,
      18, 21, 26, 66, 99, 99, 99, 99,
      24, 26, 56, 99, 99, 99, 99, 99,
      47, 66, 99, 99, 99, 99, 99, 99,
      99, 99, 99, 99, 99, 99, 99, 99,
      99, 99, 99, 99, 99, 99, 99, 99,
      99, 99, 99, 99, 99, 99, 99, 99,
      99, 99, 99, 99, 99, 99, 99, 99>>

STD_LUMA_DC_CODE_LENGTHS ==
    <<0, 1, 5, 1, 1, 1, 1, 1, 1, 0, 0, 0, 0, 0, 0, 0>>

STD_LUMA_DC_VALUES ==
    <<0, 1, 2, 3, 4, 5, 6, 7, 8, 9, 10, 11>>

STD_CHROMA_DC_CODE_LENGTHS ==
    <<0, 3, 1, 1, 1, 1, 1, 1, 1, 1, 1, 0, 0, 0, 0, 0>>

STD_CHROMA_DC_VALUES ==
    <<0, 1, 2, 3, 4, 5, 6, 7, 8, 9, 10, 11>>

STD_LUMA_AC_CODE_LENGTHS ==
    <<0, 2, 1, 3, 3, 2, 4, 3, 5, 5, 4, 4, 0, 0, 1, 125>>

STD_LUMA_AC_VALUES ==
    <<1, 2, 3, 0, 4, 17, 5, 18, 33, 49, 65, 6, 19, 81, 97, 7,
      34, 113, 20, 50, 129, 145, 161, 8, 35, 66, 177, 193, 21, 82, 209, 240,
      36, 51, 98, 114, 130, 9, 10, 22, 23, 24, 25, 26, 37, 38, 39, 40,
      41, 42, 52, 53, 54, 55, 56, 57, 58, 67, 68, 69, 70, 71, 72, 73,
      74, 83, 84, 85, 86, 87, 88, 89, 90, 99, 100, 101, 102, 103, 104, 105,
      106, 115, 116, 117, 118, 119, 120, 121, 122, 131, 132, 133, 134, 135, 136, 137,
      138, 146, 147, 148, 149, 150, 151, 152, 153, 154, 162, 163, 164, 165, 166, 167,
      168, 169, 170, 178, 179, 180, 181, 182, 183, 184, 185, 186, 194, 195, 196, 197,
      198, 199, 200, 201, 202, 210, 211, 212, 213, 214, 215, 216, 217, 218, 225, 226,
      227, 228, 229, 230, 231, 232, 233, 234, 241, 242, 243, 244, 245, 246, 247, 248,
      249, 250>>

STD_CHROMA_AC_CODE_LENGTHS ==
    <<0, 2, 1, 2, 4, 4, 3, 4, 7, 5, 4, 4, 0, 1, 2, 119>>

STD_CHROMA_AC_VALUES ==
    <<0, 1, 2, 3, 17, 4, 5, 33, 49, 6, 18, 65, 81, 7, 97, 113,
      19, 34, 50, 129, 8, 20, 66, 145, 161, 177, 193, 9, 35, 51, 82, 240,
      21, 98, 114, 209, 10, 22, 36, 52, 225, 37, 241, 23, 24, 25, 26, 38,
      39, 40, 41, 42, 53, 54, 55, 56, 57, 58, 67, 68, 69, 70, 71, 72,
      73, 74, 83, 84, 85, 86, 87, 88, 89, 90, 99, 100, 101, 102, 103, 104,
      105, 106, 115, 116, 117, 118, 119, 120, 121, 122, 130, 131, 132, 133, 134, 135,
      136, 137, 138, 146, 147, 148, 149, 150, 151, 152, 153, 154, 162, 163, 164, 165,
      166, 167, 168, 169, 170, 178, 179, 180, 181, 182, 183, 184, 185, 186, 194, 195,
      196, 197, 198, 199, 200, 201, 202, 210, 211, 212, 213, 214, 215, 216, 217, 218,
      226, 227, 228, 229, 230, 231, 232, 233, 234, 242, 243, 244, 245, 246, 247, 248,
      249, 250>>

DCCLASS == 0

ACCLASS == 1

LUMADESTINATION == 0

CHROMADESTINATION == 1

LUMAID == 1

CHROMABLUEID == 2

CHROMAREDID == 3

\* super::UNZIGZAG: the index in natural order of each position of the
\* zig-zag order.
UNZIGZAG ==
    << 0,  1,  8, 16,  9,  2,  3, 10,
      17, 24, 32, 25, 18, 11,  4,  5,
      12, 19, 26, 33, 40, 48, 41, 34,
      27, 20, 13,  6,  7, 14, 21, 28,
      35, 42, 49, 56, 57, 50, 43, 36,
      29, 22, 15, 23, 30, 37, 44, 51,
      58, 59, 52, 45, 38, 31, 39, 46,
      53, 60, 61, 54, 47, 55, 62, 63>>

\* The number of codes of at most len bits; bits is a list of code counts,
\* bits[len] for the codes of len bits.
RECURSIVE codes_up_to(_, _)
codes_up_to(bits, len) ==
    IF len = 0 THEN 0 ELSE bits[len] + codes_up_to(bits, len - 1)

\* The first code of len bits: the codes of a length are consecutive, and
\* the first one follows the last one of the length before, shifted by one.
RECURSIVE first_code(_, _)
first_code(bits, len) ==
    IF len <= 1 THEN 0
    ELSE (first_code(bits, len - 1) + bits[len - 1]) * 2

\* The size of the code of the value at position i (from 0).
huffsize_at(bits, i) == CHOOSE len \in 1..16 :
                            codes_up_to(bits, len - 1) <= i /\ i < codes_up_to(bits, len)

huffcode_at(bits, i, len) == first_code(bits, len) + (i - codes_up_to(bits, len - 1))

\* super::derive_codes_and_sizes: the size and the code of every value, in
\* the order of the value list.
derive_codes_and_sizes(bits) ==
    [huffsize |-> [k \in 1..codes_up_to(bits, 16) |-> huffsize_at(bits, k - 1)],
     huffcode |-> [k \in 1..codes_up_to(bits, 16) |->
                      huffcode_at(bits, k - 1, huffsize_at(bits, k - 1))]]

\* The table entry of value v: the last position of huffval that holds v
\* gives it, and (17, 0) stays where no position does.
lut_entry(cs, huffval, v) ==
    IF \E i \in DOMAIN huffval : huffval[i] = v
    THEN [size |-> cs.huffsize[CHOOSE i \in DOMAIN huffval :
                                  huffval[i] = v /\ \A j \in DOMAIN huffval :
                                                        huffval[j] = v => j <= i],
          code |-> cs.huffcode[CHOOSE i \in DOMAIN huffval :
                                  huffval[i] = v /\ \A j \in DOMAIN huffval :
                                                        huffval[j] = v => j <= i]]
    ELSE [size |-> 17, code |-> 0]

\* build_huff_lut behind derive_codes_and_sizes, which gave cs.
lut_filled(cs, huffval) == [k \in 1..256 |-> lut_entry(cs, huffval, k - 1)]

\* fn build_huff_lut(bits: &[u8], huffval: &[u8]) -> Vec<(u8, u16)>
build_huff_lut(bits, huffval) == lut_filled(derive_codes_and_sizes(bits), huffval)

\* super::Component, as JPEGEncoder::new fills it.
Component(id, tables) ==
    [id |-> id, h |-> 1, v |-> 1, tq |-> tables, dc_table |-> tables,
     ac_table |-> tables, dc_pred |-> 0]

components ==
    <<Component(LUMAID, LUMADESTINATION), Component(CHROMABLUEID, CHROMADESTINATION),
      Component(CHROMAREDID, CHROMADESTINATION)>>

\* self.tables
tables == STD_LUMA_QTABLE \o STD_CHROMA_QTABLE

\* accumulator: 0, as its 32 bits, the most significant first.
ZeroWord == [i \in 1..32 |-> 0]

\* pub fn new(w: W) -> JPEGEncoder<W>, w a writer that holds what it is given.
JPEGEncoderNew ==
    [w |-> <<>>, accumulator |-> ZeroWord, nbits |-> 0,
     luma_dctable   |-> build_huff_lut(STD_LUMA_DC_CODE_LENGTHS, STD_LUMA_DC_VALUES),
     luma_actable   |-> build_huff_lut(STD_LUMA_AC_CODE_LENGTHS, STD_LUMA_AC_VALUES),
     chroma_dctable |-> build_huff_lut(STD_CHROMA_DC_CODE_LENGTHS, STD_CHROMA_DC_VALUES),
     chroma_actable |-> build_huff_lut(STD_CHROMA_AC_CODE_LENGTHS, STD_CHROMA_AC_VALUES)]

(***************************************************************************)
(* The operations of the encoder take and give a record s: the fields w,   *)
(* accumulator and nbits of the encoder, the fields of trace, and st, "Ok" *)
(* or "Fail" once fail!() has ended the task.  The writer holds whatever   *)
(* it is given, so no write gives an error.                                *)
(***************************************************************************)
Working ==
    [w |-> enc.w, accumulator |-> enc.accumulator, nbits |-> enc.nbits, st |-> "Ok",
     segs |-> trace.segs, blocks |-> trace.blocks, pushed |-> trace.pushed,
     scan_at |-> trace.scan_at, scan_nbits |-> trace.scan_nbits,
     scan_acc |-> trace.scan_acc]

\* enc and trace behind a call that gave s.
written(s) ==
    /\ enc' = [enc EXCEPT !.w = s.w, !.accumulator = s.accumulator, !.nbits = s.nbits]
    /\ trace' = [st |-> s.st, segs |-> s.segs, blocks |-> s.blocks,
                 pushed |-> s.pushed, scan_at |-> s.scan_at,
                 scan_nbits |-> s.scan_nbits, scan_acc |-> s.scan_acc,
                 calls |-> trace.calls + 1]

\* Bit p (0 the lowest) of "bits as u32 << k".  A shift by 32 is made only
\* with bits = 0, which every shift leaves 0.
shifted_bit(bits, k, p) == IF p < k THEN 0 ELSE (bits \div Pow2(p - k)) % 2

\* or_shifted with "=" for "|=".
or_shifted_alone(acc, bits, k) == [i \in 1..32 |-> shifted_bit(bits, k, 32 - i)]

\* self.accumulator |= bits as u32 << k
or_shifted(acc, bits, k) ==
    [i \in 1..32 |-> IF acc[i] = 1 \/ shifted_bit(bits, k, 32 - i) = 1 THEN 1 ELSE 0]

\* (self.accumulator & (0xFFFFFFFFu32 << 24)) >> 24
top_byte(acc) ==
    acc[1] * 128 + acc[2] * 64 + acc[3] * 32 + acc[4] * 16
        + acc[5] * 8 + acc[6] * 4 + acc[7] * 2 + acc[8]

\* The size low bits of bits, the highest first: what write_bits is to write.
pushed_bits(bits, size) == [k \in 1..size |-> (bits \div Pow2(size - k)) % 2]

\* byte_out without the 0x00 behind a byte 0xFF.
byte_out_bare(s) ==
    [s EXCEPT !.w = Append(@, top_byte(s.accumulator)),
              !.nbits = U8(@ - 8),
              !.accumulator = SubSeq(@, 9, 32) \o <<0, 0, 0, 0, 0, 0, 0, 0>>]

\* One turn of the loop of write_bits.
byte_out(s) ==
    [s EXCEPT !.w = IF top_byte(s.accumulator) = 255 THEN @ \o <<255, 0>>
                    ELSE Append(@, top_byte(s.accumulator)),
              !.nbits = U8(@ - 8),
              !.accumulator = SubSeq(@, 9, 32) \o <<0, 0, 0, 0, 0, 0, 0, 0>>]

\* while self.nbits >= 8 { ... }
RECURSIVE bytes_out(_)
bytes_out(s) == IF s.nbits >= 8 THEN bytes_out(byte_out(s)) ELSE s

\* fn write_bits(&mut self, bits: u16, size: u8) -> IoResult<()>
write_bits(s, bits, size) ==
    IF s.st # "Ok" THEN s
    ELSE bytes_out([s EXCEPT !.accumulator = or_shifted(@, bits, 32 - U8(s.nbits + size)),
                             !.nbits = U8(@ + size),
                             !.pushed = @ \o pushed_bits(bits, size)])

\* pad_byte with seven bits that are 0.
pad_byte_zeros(s) == write_bits(s, 0, 7)

\* fn pad_byte(&mut self) -> IoResult<()>
pad_byte(s) == write_bits(s, 127, 7)

\* fn huffman_encode(&mut self, val: u8, table: &[(u8, u16)]) -> IoResult<()>
huffman_encode(s, val, table) ==
    IF s.st # "Ok" THEN s
    ELSE IF table[val + 1].size > 16 THEN [s EXCEPT !.st = "Fail"]
    ELSE write_bits(s, table[val + 1].code, table[val + 1].size)

(***************************************************************************)
(* write_bits and pad_byte on their own, called with codes of the tables   *)
(* and with coefficient bits.                                              *)
(***************************************************************************)
MaxWrites == 3   \* the calls made of write_bits and pad_byte

\* The codes of some values of the luma tables, and some coefficient bits.
Pushes ==
    {[bits |-> enc.luma_actable[v + 1].code, size |-> enc.luma_actable[v + 1].size] :
        v \in {0, 1, 240, 250}}
    \cup {[bits |-> enc.luma_dctable[v + 1].code, size |-> enc.luma_dctable[v + 1].size] :
             v \in {0, 11}}
    \cup {[bits |-> 0, size |-> 0], [bits |-> 1, size |-> 1], [bits |-> 255, size |-> 8],
          [bits |-> 1023, size |-> 10]}

\* The inflater and the code tables, not in use.
NoInflater ==
    /\ fixed = create_fixed_tables
    /\ src = <<>>
    /\ h = [r |-> 0, bits |-> 0, num_bits |-> 0, used |-> 0]
    /\ buf = <<>>
    /\ pos = 0
    /\ final = FALSE
    /\ btype = "Stored"
    /\ block_length = 0
    /\ ctable = <<>>
    /\ lltable = <<>>
    /\ dtable = <<>>
    /\ task = "running"
    /\ ret = [kind |-> "None", err |-> "", n |-> 0, bytes |-> <<>>, req |-> 0]
    /\ out = <<>>
    /\ blk = NoBlock
    /\ refs = <<>>
    /\ errored = FALSE
    /\ huff = NoCode

InitBits ==
    /\ NoInflater
    /\ image = NoImage
    /\ enc = JPEGEncoderNew
    /\ trace = NoTrace

WriteBits ==
    /\ trace.calls < MaxWrites
    /\ \E p \in Pushes : written(write_bits(Working, p.bits, p.size))
    /\ UNCHANGED <<src, h, buf, pos, final, btype, block_length, ctable, lltable,
                   dtable, fixed, task, ret, out, blk, refs, errored, huff, image>>

PadByte ==
    /\ trace.calls < MaxWrites
    /\ written(pad_byte(Working))
    /\ UNCHANGED <<src, h, buf, pos, final, btype, block_length, ctable, lltable,
                   dtable, fixed, task, ret, out, blk, refs, errored, huff, image>>

NextBits == WriteBits \/ PadByte

SpecBits == InitBits /\ [][NextBits]_vars

\* The bytes of a bit sequence, eight bits to a byte, the first bit the
\* highest; the bits behind the last whole byte are left out.
RECURSIVE WholeBytes(_)
WholeBytes(b) ==
    IF Len(b) < 8 THEN <<>>
    ELSE <<top_byte(b)>> \o WholeBytes(SubSeq(b, 9, Len(b)))

\* A byte sequence with 0x00 put behind every 0xFF.
RECURSIVE Stuffed(_)
Stuffed(bytes) ==
    IF bytes = <<>> THEN <<>>
    ELSE (IF Head(bytes) = 255 THEN <<255, 0>> ELSE <<Head(bytes)>>)
         \o Stuffed(Tail(bytes))

value_at(source, index) ==
    IF index < Len(source) THEN source[index + 1] ELSE source[Len(source)]

\* fn rgb_to_ycbcr(r: u8, g: u8, b: u8) -> (u8, u8, u8): the f32 sums cut
\* to u8.  The sums are formed here in thousandths and ten-thousandths; the
\* samples drawn in Samples keep them away from the whole numbers where the
\* rounding of f32 would tell.
rgb_to_ycbcr(r, g, b) ==
    [y  |-> (299 * r + 587 * g + 114 * b) \div 1000,
     cb |-> (1280000 - 1687 * r - 3313 * g + 5000 * b) \div 10000,
     cr |-> (1280000 + 5000 * r - 4187 * g - 813 * b) \div 10000]

\* ystride + xstride for entry k (from 1) of the block at (x0, y0).
sample_index(x0, y0, width, bpp, k) ==
    (y0 + ((k - 1) \div 8)) * bpp * width + x0 * bpp + ((k - 1) % 8) * bpp

\* let (yc, cb, cr) = rgb_to_ycbcr(r, g, b), the three read at index at.
ycbcr_at(source, at) ==
    rgb_to_ycbcr(value_at(source, at), value_at(source, at + 1), value_at(source, at + 2))

\* fn copy_blocks_ycbcr(source, x0, y0, width, bpp, yb, cbb, crb)
copy_blocks_ycbcr(source, x0, y0, width, bpp) ==
    [yb  |-> [k \in 1..64 |-> ycbcr_at(source, sample_index(x0, y0, width, bpp, k)).y],
     cbb |-> [k \in 1..64 |-> ycbcr_at(source, sample_index(x0, y0, width, bpp, k)).cb],
     crb |-> [k \in 1..64 |-> ycbcr_at(source, sample_index(x0, y0, width, bpp, k)).cr]]

\* fn copy_blocks_grey(source, x0, y0, width, bpp, gb)
copy_blocks_grey(source, x0, y0, width, bpp) ==
    [k \in 1..64 |-> value_at(source, sample_index(x0, y0, width, bpp, k) + 1)]

\* a / b of i32: the quotient cut towards zero.
TruncDiv(a, b) == IF a >= 0 THEN a \div b ELSE -((-a) \div b)

\* (a / b).round() of f32: the nearest whole number, halves away from zero.
RoundDiv(a, b) == IF a >= 0 THEN (2 * a + b) \div (2 * b) ELSE -((2 * (-a) + b) \div (2 * b))

\* 256 cos((2x + 1) u pi / 16), row u + 1, column x + 1.
CosT ==
    << <<256, 256, 256, 256, 256, 256, 256, 256>>,
       <<251, 213, 142, 50, -50, -142, -213, -251>>,
       <<237, 98, -98, -237, -237, -98, 98, 237>>,
       <<213, -50, -251, -142, 142, 251, 50, -213>>,
       <<181, -181, -181, 181, 181, -181, -181, 181>>,
       <<142, -251, 50, 213, -213, -50, 251, -142>>,
       <<98, -237, 237, -98, -98, 237, -237, 98>>,
       <<50, -142, 213, -251, 251, -213, 142, -50>> >>

\* The sum over a row (or a column) of eight entries of a, from entry first
\* in steps of step, each less shift, times the cosines of frequency u.
cos_sum(a, first, step, shift, u) ==
    (a[first] - shift) * CosT[u + 1][1] + (a[first + step] - shift) * CosT[u + 1][2]
    + (a[first + 2 * step] - shift) * CosT[u + 1][3]
    + (a[first + 3 * step] - shift) * CosT[u + 1][4]
    + (a[first + 4 * step] - shift) * CosT[u + 1][5]
    + (a[first + 5 * step] - shift) * CosT[u + 1][6]
    + (a[first + 6 * step] - shift) * CosT[u + 1][7]
    + (a[first + 7 * step] - shift) * CosT[u + 1][8]

\* The divisor that takes the double sum to 8 times the coefficient: with
\* C(0) = 1 / sqrt 2 and C(u) = 1 otherwise, 2 C(u) C(v) / 256^2.
dct_divisor(u, v) ==
    IF u = 0 /\ v = 0 THEN 65536 ELSE IF u = 0 \/ v = 0 THEN 46341 ELSE 32768

\* The transform of the rows rows, each row already summed over x.
dct_columns(rows) ==
    [k \in 1..64 |->
        RoundDiv(cos_sum(rows, ((k - 1) % 8) + 1, 8, 0, (k - 1) \div 8),
                 dct_divisor((k - 1) % 8, (k - 1) \div 8))]

\* transform::fdct: the level shift by 128 and the forward DCT of a block
\* of samples, the coefficients scaled by 8.
fdct(samples) ==
    dct_columns([k \in 1..64 |->
                    cos_sum(samples, 8 * ((k - 1) \div 8) + 1, 1, 128, (k - 1) % 8)])

\* ((dct[i] / 8) as f32 / table[i] as f32).round() as i32, for every i.
quantized(dct, qtable) ==
    [k \in 1..64 |-> RoundDiv(TruncDiv(dct[k], 8), qtable[k])]

\* while magnitude > 0 { magnitude >>= 1; num_bits += 1; }
RECURSIVE bit_length(_)
bit_length(magnitude) ==
    IF magnitude = 0 THEN 0 ELSE 1 + bit_length(magnitude \div 2)

\* fn encode_coefficient(coefficient: i32) -> (u8, u16)
encode_coefficient(coefficient) ==
    [size  |-> bit_length(U16(IF coefficient < 0 THEN -coefficient ELSE coefficient)),
     value |-> IF coefficient < 0
               THEN U16(coefficient - 1)
                        % Pow2(bit_length(U16(-coefficient)))
               ELSE U16(coefficient) % Pow2(bit_length(U16(coefficient)))]

\* huffman_encode(symbol, table) with symbol = (zero_run << 4) | size, then
\* write_bits(value, size); coded is what encode_coefficient gave.
symbol_written(s, zero_run, coded, table) ==
    write_bits(huffman_encode(s, BitOr(U8(zero_run * 16), coded.size), table),
               coded.value, coded.size)

\* while zero_run > 15 { huffman_encode(0xF0, actable); zero_run -= 16; }
RECURSIVE zero_runs_written(_, _, _)
zero_runs_written(s, zero_run, actable) ==
    IF zero_run > 15 THEN zero_runs_written(huffman_encode(s, 240, actable),
                                            zero_run - 16, actable)
    ELSE s

\* ac_turn without the loop "while zero_run > 15".
ac_turn_short(x, block, actable, k) ==
    IF block[UNZIGZAG[k + 1] + 1] = 0
    THEN IF k = 63 THEN [s |-> huffman_encode(x.s, 0, actable), zero_run |-> x.zero_run]
         ELSE [s |-> x.s, zero_run |-> x.zero_run + 1]
    ELSE [s |-> symbol_written(x.s, x.zero_run % 16,
                               encode_coefficient(block[UNZIGZAG[k + 1] + 1]), actable),
          zero_run |-> 0]

\* One turn of the loop of write_block, at zig-zag position k, on
\* x = [s, zero_run]; the turn at position 63 is the last.
ac_turn(x, block, actable, k) ==
    IF block[UNZIGZAG[k + 1] + 1] = 0
    THEN IF k = 63 THEN [s |-> huffman_encode(x.s, 0, actable), zero_run |-> x.zero_run]
         ELSE [s |-> x.s, zero_run |-> x.zero_run + 1]
    ELSE [s |-> symbol_written(zero_runs_written(x.s, x.zero_run, actable),
                               x.zero_run % 16,
                               encode_coefficient(block[UNZIGZAG[k + 1] + 1]), actable),
          zero_run |-> 0]

\* The turns lo .. hi of the loop.
RECURSIVE ac_turns(_, _, _, _, _)
ac_turns(x, block, actable, lo, hi) ==
    IF lo = hi THEN ac_turn(x, block, actable, lo)
    ELSE CHOOSE y \in {ac_turns(m, block, actable, ((lo + hi) \div 2) + 1, hi) :
                          m \in {ac_turns(x, block, actable, lo, (lo + hi) \div 2)}} : TRUE

\* What trace records of a block: tag tells the component and the origin
\* of the block and its samples, at is the number of bits pushed before the
\* block, dcval is block[0], coefs the block and prev the prevdc it was
\* called with; luma and chroma tell whose tables the block was written
\* with.
block_record(s, tag, block, prevdc, dctable, actable) ==
    [call |-> trace.calls + 1, comp |-> tag.comp, x0 |-> tag.x0, y0 |-> tag.y0,
     samples |-> tag.samples, at |-> Len(s.pushed), dcval |-> block[1],
     coefs |-> block, prev |-> prevdc,
     luma |-> dctable = enc.luma_dctable /\ actable = enc.luma_actable,
     chroma |-> dctable = enc.chroma_dctable /\ actable = enc.chroma_actable]

\* fn write_block(&mut self, block, prevdc, dctable, actable) -> IoResult<i32>;
\* the value it returns is block[0].
write_block(s, block, prevdc, dctable, actable, tag) ==
    IF s.st # "Ok" THEN s
    ELSE ac_turns([s |-> symbol_written([s EXCEPT !.blocks =
                                       Append(@, block_record(s, tag, block, prevdc,
                                                              dctable, actable))],
                                   0, encode_coefficient(block[1] - prevdc), dctable),
                   zero_run |-> 0],
                  block, actable, 1, 63).s

(***************************************************************************)
(* Segments.                                                               *)
(***************************************************************************)
\* data: Option<Vec<u8>>
None == [is_some |-> FALSE, b |-> <<>>]

Some(b) == [is_some |-> TRUE, b |-> b]

\* write_be_u16(x)
be_u16(x) == <<U16(x) \div 256, U16(x) % 256>>

\* fn write_segment(&mut self, marker: u8, data: Option<Vec<u8>>) -> IoResult<()>
write_segment(s, marker, data) ==
    IF s.st # "Ok" THEN s
    ELSE [s EXCEPT !.w = @ \o <<255, marker>>
                           \o (IF data.is_some THEN be_u16(U16(Len(data.b)) + 2) \o data.b
                               ELSE <<>>),
                   !.segs = Append(@, [call |-> trace.calls + 1, marker |-> marker,
                                       at |-> Len(s.w), data |-> data.b])]

\* fn build_jfif_header() -> Vec<u8>; 74, 70, 73, 70 are "JFIF".
build_jfif_header == <<74, 70, 73, 70, 0, 1, 2, 0>> \o be_u16(1) \o be_u16(1) \o <<0, 0>>

\* fn build_frame_header(precision, width, height, components) -> Vec<u8>
build_frame_header(precision, width, height, comps) ==
    <<precision>> \o be_u16(height) \o be_u16(width) \o <<U8(Len(comps))>>
    \o [k \in 1..(3 * Len(comps)) |->
           IF k % 3 = 1 THEN comps[(k + 2) \div 3].id
           ELSE IF k % 3 = 2
           THEN BitOr(U8(comps[(k + 2) \div 3].h * 16), comps[(k + 2) \div 3].v)
           ELSE comps[(k + 2) \div 3].tq]

\* fn build_scan_header(components: &[Component]) -> Vec<u8>
build_scan_header(comps) ==
    <<U8(Len(comps))>>
    \o [k \in 1..(2 * Len(comps)) |->
           IF k % 2 = 1 THEN comps[(k + 1) \div 2].id
           ELSE BitOr(U8(comps[(k + 1) \div 2].dc_table * 16), comps[(k + 1) \div 2].ac_table)]
    \o <<0, 63, 0>>

\* fn build_huffman_segment(class, destination, numcodes, values) -> Vec<u8>;
\* both asserts hold of the tables it is called with.
build_huffman_segment(class, destination, numcodes, values) ==
    <<BitOr(U8(class * 16), destination)>> \o numcodes \o values

\* fn build_quantization_segment(precision, identifier, qtable) -> Vec<u8>
build_quantization_segment(precision, identifier, qtable) ==
    <<BitOr(U8((IF precision = 8 THEN 0 ELSE 1) * 16), identifier)>>
    \o [k \in 1..64 |-> qtable[UNZIGZAG[k] + 1]]

\* The segments encode writes ahead of the scan, in the order it writes
\* them; num_components is 1 or 3.
header_segments(width, height, num_components) ==
    <<[marker |-> SOI, data |-> None],
      [marker |-> APP0, data |-> Some(build_jfif_header)],
      [marker |-> SOF0,
       data |-> Some(build_frame_header(8, U16(width), U16(height),
                                        SubSeq(components, 1, num_components)))]>>
    \o [k \in 1..(IF num_components = 1 THEN 1 ELSE 2) |->
           [marker |-> DQT,
            data |-> Some(build_quantization_segment(
                              8, k - 1, SubSeq(tables, 64 * (k - 1) + 1, 64 * k)))]]
    \o <<[marker |-> DHT,
          data |-> Some(build_huffman_segment(DCCLASS, LUMADESTINATION,
                            STD_LUMA_DC_CODE_LENGTHS, STD_LUMA_DC_VALUES))],
         [marker |-> DHT,
          data |-> Some(build_huffman_segment(ACCLASS, LUMADESTINATION,
                            STD_LUMA_AC_CODE_LENGTHS, STD_LUMA_AC_VALUES))]>>
    \o (IF num_components = 3
        THEN <<[marker |-> DHT,
                data |-> Some(build_huffman_segment(DCCLASS, CHROMADESTINATION,
                                  STD_CHROMA_DC_CODE_LENGTHS, STD_CHROMA_DC_VALUES))],
               [marker |-> DHT,
                data |-> Some(build_huffman_segment(ACCLASS, CHROMADESTINATION,
                                  STD_CHROMA_AC_CODE_LENGTHS, STD_CHROMA_AC_VALUES))]>>
        ELSE <<>>)
    \o <<[marker |-> SOS,
          data |-> Some(build_scan_header(SubSeq(components, 1, num_components)))]>>

\* The segments segs[i .. ] written one after the other.
RECURSIVE write_segments(_, _, _)
write_segments(s, segs, i) ==
    IF i > Len(segs) THEN s
    ELSE write_segments(write_segment(s, segs[i].marker, segs[i].data), segs, i + 1)

(***************************************************************************)
(* The scan.                                                               *)
(***************************************************************************)
\* mcu_origins with the loops the other way round: down the columns.
mcu_origins_down(width, height) ==
    [i \in 1..(((width + 7) \div 8) * ((height + 7) \div 8)) |->
        [x |-> 8 * ((i - 1) \div ((height + 7) \div 8)),
         y |-> 8 * ((i - 1) % ((height + 7) \div 8))]]

\* The pairs (x, y) of "for y in range_step(0, height, 8) { for x in
\* range_step(0, width, 8)", in the order of the loops.
mcu_origins(width, height) ==
    [i \in 1..(((width + 7) \div 8) * ((height + 7) \div 8)) |->
        [x |-> 8 * ((i - 1) % ((width + 7) \div 8)),
         y |-> 8 * ((i - 1) \div ((width + 7) \div 8))]]

\* block_coded with the predictor left as it was.
block_coded_kept(m, comp, block, dctable, actable, tag) ==
    [s |-> write_block(m.s, block, m.dcprev[comp], dctable, actable, tag),
     dcprev |-> m.dcprev]

\* "dcprev = try!(self.write_block(block, dcprev, dctable, actable))" for the
\* predictor of comp, on m = [s, dcprev].
block_coded(m, comp, block, dctable, actable, tag) ==
    [s |-> write_block(m.s, block, m.dcprev[comp], dctable, actable, tag),
     dcprev |-> [m.dcprev EXCEPT ![comp] = block[1]]]

\* The body of the loops of encode_grey, the block yblock copied.
grey_mcu(m, yblock, x, y) ==
    block_coded(m, "y", quantized(fdct(yblock), SubSeq(tables, 1, 64)),
                enc.luma_dctable, enc.luma_actable,
                [comp |-> "y", x0 |-> x, y0 |-> y, samples |-> yblock])

\* The turns i .. of the loops of encode_grey.
RECURSIVE grey_mcus(_, _, _, _, _, _)
grey_mcus(m, pixels, width, bpp, origins, i) ==
    IF i > Len(origins) THEN m
    ELSE grey_mcus(grey_mcu(m,
                            copy_blocks_grey(pixels, origins[i].x, origins[i].y, width, bpp),
                            origins[i].x, origins[i].y),
                   pixels, width, bpp, origins, i + 1)

\* fn encode_grey(&mut self, image, width, height, bpp) -> IoResult<()>
encode_grey(s, pixels, width, height, bpp) ==
    grey_mcus([s |-> s, dcprev |-> [comp \in {"y"} |-> 0]],
              pixels, width, bpp, mcu_origins(width, height), 1).s

\* The three write_block calls of encode_rgb in the order y, cb, cr.
rgb_mcu(m, copied, x, y) ==
    block_coded(
        block_coded(
            block_coded(m, "y", quantized(fdct(copied.yb), SubSeq(tables, 1, 64)),
                        enc.luma_dctable, enc.luma_actable,
                        [comp |-> "y", x0 |-> x, y0 |-> y, samples |-> copied.yb]),
            "cb", quantized(fdct(copied.cbb), SubSeq(tables, 65, 128)),
            enc.chroma_dctable, enc.chroma_actable,
            [comp |-> "cb", x0 |-> x, y0 |-> y, samples |-> copied.cbb]),
        "cr", quantized(fdct(copied.crb), SubSeq(tables, 65, 128)),
        enc.chroma_dctable, enc.chroma_actable,
        [comp |-> "cr", x0 |-> x, y0 |-> y, samples |-> copied.crb])

\* The turns i .. of the loops of encode_rgb.
RECURSIVE rgb_mcus(_, _, _, _, _, _)
rgb_mcus(m, pixels, width, bpp, origins, i) ==
    IF i > Len(origins) THEN m
    ELSE rgb_mcus(rgb_mcu(m,
                          copy_blocks_ycbcr(pixels, origins[i].x, origins[i].y, width, bpp),
                          origins[i].x, origins[i].y),
                  pixels, width, bpp, origins, i + 1)

\* fn encode_rgb(&mut self, image, width, height, bpp) -> IoResult<()>
encode_rgb(s, pixels, width, height, bpp) ==
    rgb_mcus([s |-> s, dcprev |-> [comp \in {"y", "cb", "cr"} |-> 0]],
             pixels, width, bpp, mcu_origins(width, height), 1).s

(***************************************************************************)
(* encode.  A colour type is [kind, depth], as RGB(8) is                   *)
(* [kind |-> "RGB", depth |-> 8].                                          *)
(***************************************************************************)
\* colortype::num_components(c)
num_components(c) ==
    CASE c.kind = "Grey" -> 1
      [] c.kind = "GreyA" -> 2
      [] c.kind = "RGB" -> 3
      [] c.kind = "Palette" -> 3
      [] c.kind = "RGBA" -> 4

\* match c { ... } of encode, with the scan starting where w ends.
encode_scan(s, pixels, width, height, c) ==
    IF c = [kind |-> "RGB", depth |-> 8] THEN encode_rgb(s, pixels, width, height, 3)
    ELSE IF c = [kind |-> "RGBA", depth |-> 8] THEN encode_rgb(s, pixels, width, height, 4)
    ELSE IF c = [kind |-> "Grey", depth |-> 8] THEN encode_grey(s, pixels, width, height, 1)
    ELSE IF c = [kind |-> "GreyA", depth |-> 8] THEN encode_grey(s, pixels, width, height, 2)
    ELSE [s EXCEPT !.st = "Fail"]

\* s with scan_at where w ends: the scan is what w holds from there; and
\* with the bit count and the accumulator the scan begins with.
scan_begun(s) ==
    [s EXCEPT !.scan_at = Len(s.w), !.scan_nbits = s.nbits, !.scan_acc = s.accumulator]

\* pub fn encode(&mut self, image, width, height, c) -> IoResult<()>
encode(s, pixels, width, height, c) ==
    write_segment(
        pad_byte(
            encode_scan(
                scan_begun(
                    write_segments(s,
                                   header_segments(width, height,
                                       IF num_components(c) \in {1, 2} THEN 1 ELSE 3),
                                   1)),
                pixels, width, height, c)),
        EOI, None)

(***************************************************************************)
(* encode called on a new encoder, at most MaxEncodes times with the same  *)
(* image.                                                                  *)
(***************************************************************************)
MaxEncodes == 2   \* the calls made of encode
MaxPattern == 2   \* the patterns the pixels are drawn by, from 0

\* The bytes the pixels are made of.
Samples == <<0, 16, 64, 100, 130, 201, 255>>

Sizes ==
    {[width |-> 1, height |-> 1], [width |-> 5, height |-> 5], [width |-> 8, height |-> 8],
     [width |-> 16, height |-> 8], [width |-> 9, height |-> 9]}

ColorTypes ==
    {[kind |-> "RGB", depth |-> 8], [kind |-> "RGBA", depth |-> 8],
     [kind |-> "Grey", depth |-> 8], [kind |-> "GreyA", depth |-> 8],
     [kind |-> "RGB", depth |-> 16], [kind |-> "Palette", depth |-> 8]}

\* The bytes of a pixel of colour type c.
bytes_per_pixel(c) ==
    IF c.kind = "Palette" THEN 1 ELSE (num_components(c) * c.depth) \div 8

\* Byte i (from 1) of the buffer of an image width wide with bpp bytes to
\* the pixel, by pattern q: pattern 0 has every pixel alike, the others
\* change from pixel to pixel along the rows and down the columns.
pattern_byte(q, width, bpp, i) ==
    Samples[((q * ((((i - 1) \div bpp) % width) + 2 * (((i - 1) \div bpp) \div width))
                 + 3 * ((i - 1) % bpp) + q) % Len(Samples)) + 1]

Images ==
    {[c |-> c, width |-> z.width, height |-> z.height,
      pixels |-> [i \in 1..(z.width * z.height * bytes_per_pixel(c)) |->
                     pattern_byte(q, z.width, bytes_per_pixel(c), i)]] :
        c \in ColorTypes, z \in Sizes, q \in 0..MaxPattern}

InitJpeg ==
    /\ NoInflater
    /\ image \in Images
    /\ enc = JPEGEncoderNew
    /\ trace = NoTrace

\* encoder.encode(image, width, height, c), while the task lives.
Encode ==
    /\ trace.calls < MaxEncodes
    /\ trace.st # "Fail"
    /\ written(encode(Working, image.pixels, image.width, image.height, image.c))
    /\ UNCHANGED <<src, h, buf, pos, final, btype, block_length, ctable, lltable,
                   dtable, fixed, task, ret, out, blk, refs, errored, huff, image>>

NextJpeg == Encode

SpecJpeg == InitJpeg /\ [][NextJpeg]_vars

(***************************************************************************)
(* Properties of encode.                                                   *)
(***************************************************************************)
\* The colour types encode has an arm for.
Supported ==
    {[kind |-> "RGB", depth |-> 8], [kind |-> "RGBA", depth |-> 8],
     [kind |-> "Grey", depth |-> 8], [kind |-> "GreyA", depth |-> 8]}

\* The blocks of an MCU: 1 for grey input, 3 for colour input.
BlocksPerMcu == IF image.c.kind \in {"Grey", "GreyA"} THEN 1 ELSE 3

\* The segments and the blocks trace holds of call k.
SegsOf(k) == SelectSeq(trace.segs, LAMBDA g : g.call = k)

BlocksOf(k) == SelectSeq(trace.blocks, LAMBDA b : b.call = k)

\* The markers in the order the emission is required in.
RequiredMarkers ==
    IF BlocksPerMcu = 1 THEN <<SOI, APP0, DQT, DHT, DHT, SOF0, SOS, EOI>>
    ELSE <<SOI, APP0, DQT, DQT, DHT, DHT, DHT, DHT, SOF0, SOS, EOI>>

\* C12: a call of encode that returns has written a whole file: its
\* markers are SOI, APP0, DQT (luma, then chroma with 3 components), DHT
\* (luma DC, luma AC, then chroma DC, chroma AC with 3 components), SOF0,
\* SOS and EOI in this order; the file begins FF D8 and ends FF D9, and the
\* scan and its padding lie between the SOS segment and EOI.
SegmentOrder ==
    trace.calls = 1 /\ image.c \in Supported =>
        /\ trace.st = "Ok"
        /\ [i \in 1..Len(SegsOf(1)) |-> SegsOf(1)[i].marker] = RequiredMarkers
        /\ SubSeq(enc.w, 1, 2) = <<255, SOI>>
        /\ SubSeq(enc.w, Len(enc.w) - 1, Len(enc.w)) = <<255, EOI>>
        /\ SegsOf(1)[Len(SegsOf(1)) - 1].marker = SOS
        /\ trace.scan_at = SegsOf(1)[Len(SegsOf(1)) - 1].at
                               + 4 + Len(SegsOf(1)[Len(SegsOf(1)) - 1].data)
        /\ trace.scan_at < SegsOf(1)[Len(SegsOf(1))].at
        /\ SegsOf(1)[Len(SegsOf(1))].at = Len(enc.w) - 2

\* The order encode writes the markers in.
WrittenMarkers ==
    IF BlocksPerMcu = 1 THEN <<SOI, APP0, SOF0, DQT, DHT, DHT, SOS, EOI>>
    ELSE <<SOI, APP0, SOF0, DQT, DQT, DHT, DHT, DHT, DHT, SOS, EOI>>

\* What does hold of the segments: SegmentOrder with WrittenMarkers.
SegmentOrderWritten ==
    trace.calls = 1 /\ image.c \in Supported =>
        /\ trace.st = "Ok"
        /\ [i \in 1..Len(SegsOf(1)) |-> SegsOf(1)[i].marker] = WrittenMarkers
        /\ SubSeq(enc.w, Len(enc.w) - 1, Len(enc.w)) = <<255, EOI>>
        /\ SegsOf(1)[Len(SegsOf(1))].at = Len(enc.w) - 2

\* C15: encode called with a colour type other than RGB(8), RGBA(8),
\* Grey(8) and GreyA(8) returns to its caller, with the error value
\* UnsupportedInput.
UnsupportedIsError ==
    trace.calls > 0 /\ image.c \notin Supported => trace.st = "UnsupportedInput"

\* A new encoder about to be called, as Working is of enc.
Fresh ==
    [w |-> <<>>, accumulator |-> ZeroWord, nbits |-> 0, st |-> "Ok", segs |-> <<>>,
     blocks |-> <<>>, pushed |-> <<>>, scan_at |-> 0, scan_nbits |-> 0,
     scan_acc |-> <<>>]

\* The pixels of image with every alpha byte (the last byte of a pixel) a.
WithAlpha(a) ==
    [i \in 1..Len(image.pixels) |->
        IF i % bytes_per_pixel(image.c) = 0 THEN a ELSE image.pixels[i]]

\* The pixels of image with every byte but the alpha bytes v.
WithSamples(v) ==
    [i \in 1..Len(image.pixels) |->
        IF i % bytes_per_pixel(image.c) = 0 THEN image.pixels[i] ELSE v]

\* C14: for RGBA(8) and GreyA(8) input the bytes written do not depend on
\* the alpha bytes (the image with all of them 0, or all of them 255, is
\* encoded to the same bytes) and do depend on the other bytes (with all
\* of them 0, or all of them 255, the bytes written differ).
AlphaIgnored ==
    trace.calls = 1 /\ image.c \in {[kind |-> "RGBA", depth |-> 8],
                                    [kind |-> "GreyA", depth |-> 8]} =>
        /\ \A a \in {0, 255} :
              encode(Fresh, WithAlpha(a), image.width, image.height, image.c).w = enc.w
        /\ \E v \in {0, 255} :
              encode(Fresh, WithSamples(v), image.width, image.height, image.c).w # enc.w

\* The entry of a block for column x and row y of the block, from 0.
EntryAt(x, y) == 8 * y + x + 1

\* C16: in a block of an image whose width or height is no multiple of 8,
\* an entry beyond the image holds the sample of the rightmost column of the
\* image in its row, of the bottommost row of the image in its column.
EdgeReplication ==
    trace.calls > 0 /\ image.c \in Supported
        /\ (image.width % 8 # 0 \/ image.height % 8 # 0) =>
        \A i \in DOMAIN trace.blocks : \A x \in 0..7, y \in 0..7 :
            trace.blocks[i].samples[EntryAt(x, y)]
                = trace.blocks[i].samples[
                      EntryAt(Min(x, image.width - 1 - trace.blocks[i].x0),
                              Min(y, image.height - 1 - trace.blocks[i].y0))]

\* The blocks of component comp among the blocks of call k.
ComponentBlocks(k, comp) == SelectSeq(BlocksOf(k), LAMBDA b : b.comp = comp)

\* The differential of block i of blocks: its DC value less the DC value
\* of the block before it, less 0 for the first.
Differential(blocks, i) ==
    blocks[i].dcval - (IF i = 1 THEN 0 ELSE blocks[i - 1].dcval)

\* The bits that code the differential d with the DC table dctable: the
\* code of its size, then the size bits of its value.
DifferentialBits(d, dctable) ==
    pushed_bits(dctable[encode_coefficient(d).size + 1].code,
                dctable[encode_coefficient(d).size + 1].size)
    \o pushed_bits(encode_coefficient(d).value, encode_coefficient(d).size)

\* The coefficient that size bits of value stand for.
CoefficientOf(coded) ==
    IF coded.size = 0 THEN 0
    ELSE IF coded.value >= Pow2(coded.size - 1) THEN coded.value
    ELSE coded.value - Pow2(coded.size) + 1

\* The sum of the differentials of the blocks 1 .. i, each as the bits
\* written for it are read back.
RECURSIVE DifferentialSum(_, _)
DifferentialSum(blocks, i) ==
    IF i = 0 THEN 0
    ELSE DifferentialSum(blocks, i - 1)
             + CoefficientOf(encode_coefficient(Differential(blocks, i)))

\* The DC table of a component.
DcTableOf(comp) == IF comp = "y" THEN enc.luma_dctable ELSE enc.chroma_dctable

\* C17: in every call of encode and for every component, the bits written
\* at the start of a block are the code of the block's quantized DC value
\* less the DC value of the block of the same component before it (less 0
\* for the first), and the differentials written for a component add up to
\* the DC value of its last block.
DCContinuity ==
    \A k \in 1..trace.calls : \A comp \in {"y", "cb", "cr"} :
        /\ \A i \in DOMAIN ComponentBlocks(k, comp) :
              SubSeq(trace.pushed, ComponentBlocks(k, comp)[i].at + 1,
                     ComponentBlocks(k, comp)[i].at
                         + Len(DifferentialBits(Differential(ComponentBlocks(k, comp), i),
                                                DcTableOf(comp))))
                  = DifferentialBits(Differential(ComponentBlocks(k, comp), i),
                                     DcTableOf(comp))
        /\ ComponentBlocks(k, comp) # <<>> =>
              DifferentialSum(ComponentBlocks(k, comp), Len(ComponentBlocks(k, comp)))
                  = ComponentBlocks(k, comp)[Len(ComponentBlocks(k, comp))].dcval

\* A colour image of two blocks to the component has been encoded, the DC
\* values of its luma blocks not 0 and not alike.
DCContinuityWitness ==
    /\ trace.calls = 1
    /\ trace.st = "Ok"
    /\ Len(ComponentBlocks(1, "cr")) = 2
    /\ ComponentBlocks(1, "y")[1].dcval # 0
    /\ ComponentBlocks(1, "y")[2].dcval # ComponentBlocks(1, "y")[1].dcval
    /\ ComponentBlocks(1, "y")[2].dcval # 0

\* The MCUs of the image in a row, and in a column.
McusAcross == (image.width + 7) \div 8

McusDown == (image.height + 7) \div 8

Coded(lengths) == {n \in DOMAIN lengths : lengths[n] # 0}

\* The sum of bl_count[1 .. len].
RECURSIVE CountSum(_, _)
CountSum(blc, len) == IF len = 0 THEN 0 ELSE blc[len] + CountSum(blc, len - 1)

\* The code of symbol m is the start of the code of symbol n.
IsCodePrefix(lengths, nc, m, n) ==
    /\ lengths[m] <= lengths[n]
    /\ AssignedCode(lengths, nc, n) \div Pow2(lengths[n] - lengths[m])
           = AssignedCode(lengths, nc, m)

\* C21: for the length vector a table was built from, bl_count[len] is the
\* number of symbols of length len for every len >= 1, so that the counts
\* add up to the number of symbols that receive a code; next_code[bits] is
\* (next_code[bits - 1] + bl_count[bits - 1]) << 1; and with Kraft's
\* inequality no code of length L is above (1 << L) - 1 and no code is the
\* start of another.
CodeCounts ==
    huff.built # "None" =>
        /\ \A len \in 1..15 : bl_count(huff.lengths)[len] = CodeCount(huff.lengths, len)
        /\ CountSum(bl_count(huff.lengths), 15) = Cardinality(Coded(huff.lengths))
        /\ \A bits \in 1..15 :
              next_code(huff.lengths)[bits]
                  = U16(((IF bits = 1 THEN 0 ELSE next_code(huff.lengths)[bits - 1])
                             + bl_count(huff.lengths)[bits - 1]) * 2)
        /\ Kraft(huff.lengths) =>
              /\ \A n \in Coded(huff.lengths) :
                    AssignedCode(huff.lengths, next_code(huff.lengths), n)
                        <= Pow2(huff.lengths[n]) - 1
              /\ \A m, n \in Coded(huff.lengths) :
                    m # n => ~IsCodePrefix(huff.lengths, next_code(huff.lengths), m, n)

\* What does hold: CodeCounts of the vectors with fewer than 256 symbols
\* of every length.
CodeCountsNarrow == huff.lengths # ManyNines => CodeCounts

(***************************************************************************)
(* read on sources that are one final block with BTYPE=10: the header of   *)
(* a dynamic block, its code lengths given by a sequence of code-length    *)
(* symbols, and nothing behind them but the zero bits that fill the last   *)
(* byte.                                                                   *)
(***************************************************************************)
MaxTail == 2   \* the code-length symbols drawn behind a prefix

\* The code lengths of the code-length alphabet: 2 bits for the symbols 0
\* and 1, 3 bits for 2, 16, 17 and 18.
ClLengths ==
    [k \in 1..19 |-> IF k - 1 \in {0, 1} THEN 2
                     ELSE IF k - 1 \in {2, 16, 17, 18} THEN 3 ELSE 0]

\* A code-length symbol with the value of its extra bits.
ClItem(sym, extra) == [sym |-> sym, extra |-> extra]

\* The extra bits behind a code-length symbol.
ClExtra(sym) == IF sym = 16 THEN 2 ELSE IF sym = 17 THEN 3 ELSE IF sym = 18 THEN 7 ELSE 0

\* The items a tail is made of.
TailItems ==
    {ClItem(0, 0), ClItem(1, 0), ClItem(2, 0), ClItem(16, 0), ClItem(16, 3),
     ClItem(17, 0), ClItem(18, 0), ClItem(18, 29)}

Tails == UNION {[1..n -> TailItems] : n \in 0..MaxTail}

\* The headers drawn: HLIT and HDIST as sent, and the code-length symbols.
\* The prefixes are no symbols at all, zero runs up to entry 256 (of
\* 257 + 1 entries), and zero runs up to entry 314 (of 288 + 32 entries).
DynHeaders ==
    {[hlit |-> 0, hdist |-> 0, items |-> tail] : tail \in Tails}
    \cup {[hlit |-> 0, hdist |-> 0,
           items |-> <<ClItem(18, 127), ClItem(18, 107)>> \o tail] : tail \in Tails}
    \cup {[hlit |-> 31, hdist |-> 31,
           items |-> <<ClItem(18, 127), ClItem(18, 127), ClItem(18, 27)>> \o tail] :
             tail \in Tails}

\* The bits of the code-length symbols items[i ..] with their extra bits.
RECURSIVE ClItemBits(_, _)
ClItemBits(items, i) ==
    IF i > Len(items) THEN <<>>
    ELSE SentBits(canonical_code(ClLengths, items[i].sym), ClLengths[items[i].sym + 1])
         \o ValueBits(items[i].extra, ClExtra(items[i].sym))
         \o ClItemBits(items, i + 1)

\* The bits of the 3-bit lengths of the code-length alphabet, CODEORDER[i ..]
\* up to entry 18, the last that is not 0.
RECURSIVE ClLengthBits(_)
ClLengthBits(i) ==
    IF i > 18 THEN <<>>
    ELSE ValueBits(ClLengths[CODEORDER[i] + 1], 3) \o ClLengthBits(i + 1)

\* The source of header g: BFINAL=1, BTYPE=10, HLIT, HDIST, HCLEN = 18 - 4,
\* the lengths of the code-length alphabet, the code-length symbols.
DynSource(g) ==
    PackBytes(<<1, 0, 1>> \o ValueBits(g.hlit, 5) \o ValueBits(g.hdist, 5)
              \o ValueBits(14, 4) \o ClLengthBits(1) \o ClItemBits(g.items, 1))

InitDyn ==
    /\ fixed = create_fixed_tables
    /\ src \in {DynSource(g) : g \in DynHeaders}
    /\ h = [r |-> 0, bits |-> 0, num_bits |-> 0, used |-> 0]
    /\ buf = <<>>
    /\ pos = 0
    /\ final = FALSE
    /\ btype = "Stored"
    /\ block_length = 0
    /\ ctable = <<>>
    /\ lltable = <<>>
    /\ dtable = <<>>
    /\ task = "running"
    /\ ret = [kind |-> "None", err |-> "", n |-> 0, bytes |-> <<>>, req |-> 0]
    /\ out = <<>>
    /\ blk = NoBlock
    /\ refs = <<>>
    /\ errored = FALSE
    /\ huff = NoCode
    /\ image = NoImage
    /\ enc = NoEncoder
    /\ trace = NoTrace

SpecDyn == InitDyn /\ [][Next]_vars

\* The source of every header drawn.
DynSourceOf == [g \in DynHeaders |-> DynSource(g)]

\* n copies of the length v.
Copies(v, n) == [k \in 1..n |-> v]

\* The lengths that code-length symbol it adds behind the lengths acc, as
\* RFC 1951 3.2.7 gives them.
LengthsOf(it, acc) ==
    IF it.sym <= 15 THEN <<it.sym>>
    ELSE IF it.sym = 16
    THEN (IF acc = <<>> THEN <<>> ELSE Copies(acc[Len(acc)], 3 + it.extra))
    ELSE IF it.sym = 17 THEN Copies(0, 3 + it.extra)
    ELSE Copies(0, 11 + it.extra)

\* The lengths the symbols items[i ..] give behind acc, read until total
\* lengths are at hand.
RECURSIVE Expanded(_, _, _, _)
Expanded(items, i, acc, total) ==
    IF i > Len(items) \/ Len(acc) >= total THEN acc
    ELSE Expanded(items, i + 1, acc \o LengthsOf(items[i], acc), total)

\* The two tables are those of the lengths ll and d.
TablesFrom(ll, d) ==
    /\ ll.ok => lltable = ll.lut
    /\ (ll.ok /\ d.ok) => dtable = d.lut

\* The header g was decoded as its symbols say, dyn being what the while
\* loop left.
DecodedAs(g, dyn) ==
    /\ dyn.hlit = 257 + g.hlit
    /\ dyn.hdist = 1 + g.hdist
    /\ dyn.i = dyn.hlit + dyn.hdist
    /\ dyn.i <= Len(dyn.al)
    /\ SubSeq(dyn.al, 1, dyn.i) = Expanded(g.items, 1, <<>>, dyn.i)
    /\ TablesFrom(table_from_lengths(SubSeq(dyn.al, 1, dyn.hlit)),
                  table_from_lengths(SubSeq(dyn.al, dyn.hlit + 1, dyn.i)))

\* C22: when the header of a dynamic block has been decoded, exactly
\* HLIT + HDIST code lengths were produced, they are the lengths the
\* code-length symbols of the source stand for (0..15 one length, 16 the
\* previous length 3 + extra times, 17 3 + extra zeros, 18 11 + extra
\* zeros), the literal/length table is the table of the first HLIT lengths
\* and the distance table is the table of exactly the HDIST lengths behind
\* them.
DynamicHeader ==
    blk.dyn.st = "Ok" =>
        \E g \in DynHeaders : src = DynSourceOf[g] /\ DecodedAs(g, blk.dyn)

\* The headers whose symbols give exactly HLIT + HDIST lengths, no run
\* going further, and no more lengths than all_lengths holds.
ExactlyFilled(g) ==
    /\ 258 + g.hlit + g.hdist <= LITERALLENGTHCODES + DISTANCECODES
    /\ Len(Expanded(g.items, 1, <<>>, 258 + g.hlit + g.hdist)) = 258 + g.hlit + g.hdist

\* DynamicHeader for the sources of headers that are exactly filled.
DynamicHeaderNarrow ==
    (blk.dyn.st = "Ok" /\ \E g \in DynHeaders : src = DynSourceOf[g] /\ ExactlyFilled(g))
        => \E g \in DynHeaders : src = DynSourceOf[g] /\ DecodedAs(g, blk.dyn)

\* An exactly filled header was decoded, so DynamicHeaderNarrow is not
\* empty: this state is not to be reached.
NoExactHeader ==
    ~(/\ blk.dyn.st = "Ok"
      /\ \E g \in DynHeaders : src = DynSourceOf[g] /\ ExactlyFilled(g)
      /\ blk.dyn.al[257] = 1
      /\ blk.dyn.al[258] = 2)

\* C29: read_dynamic_tables never indexes outside all_lengths and accepts
\* no run that passes HLIT + HDIST: the while loop does not end in a failed
\* indexing (the code-length code of these sources is complete, so every
\* symbol decodes and only an indexing can fail), a header that was
\* accepted gave exactly HLIT + HDIST lengths, all of them inside the
\* array, and a header that was not is reported as an error of the read.
IndexChecked ==
    /\ blk.dyn.st # "Fail"
    /\ blk.dyn.st = "Ok" =>
           /\ blk.dyn.i = blk.dyn.hlit + blk.dyn.hdist
           /\ blk.dyn.i <= Len(blk.dyn.al)
    /\ blk.dyn.st \notin {"None", "Ok"} => ret.kind = "Err"

\* IndexChecked for the sources of headers that are exactly filled.
IndexCheckedNarrow ==
    (\E g \in DynHeaders : src = DynSourceOf[g] /\ ExactlyFilled(g)) => IndexChecked

(***************************************************************************)
(* write_block on its own, called on a new encoder with coefficient blocks *)
(* that have at most two coefficients of the zig-zag positions 1..63 set.  *)
(***************************************************************************)
MaxBlocks == 2   \* the calls made of write_block

\* The zig-zag positions and the values of the coefficients that are set,
\* and the values of the coefficient 0.
SetPositions == {1, 17, 40, 63}

SetValues == {1, -2}

DcValues == {0, 3}

\* The block with coefficient 0 set to dc and the zig-zag positions of the
\* domain of f set to the values of f.
CoefBlock(dc, f) ==
    [i \in 1..64 |->
        IF i = 1 THEN dc
        ELSE IF \E k \in DOMAIN f : UNZIGZAG[k + 1] + 1 = i
        THEN f[CHOOSE k \in DOMAIN f : UNZIGZAG[k + 1] + 1 = i]
        ELSE 0]

CoefBlocks ==
    {CoefBlock(dc, f) : dc \in DcValues,
                        f \in UNION {[P -> SetValues] :
                                        P \in {Q \in SUBSET SetPositions : Cardinality(Q) <= 2}}}

\* The block is of no image.
NoTag == [comp |-> "None", x0 |-> 0, y0 |-> 0, samples |-> <<>>]

\* The predictor write_block is called with: 0 at first, then what the
\* call before returned, as encode_grey and encode_rgb keep it.
PrevDc == IF trace.blocks = <<>> THEN 0 ELSE trace.blocks[Len(trace.blocks)].dcval

InitBlock ==
    /\ NoInflater
    /\ image = NoImage
    /\ enc = JPEGEncoderNew
    /\ trace = NoTrace

WriteBlock ==
    /\ trace.calls < MaxBlocks
    /\ \E b \in CoefBlocks, luma \in BOOLEAN :
           written(write_block(Working, b, PrevDc,
                               IF luma THEN enc.luma_dctable ELSE enc.chroma_dctable,
                               IF luma THEN enc.luma_actable ELSE enc.chroma_actable,
                               NoTag))
    /\ UNCHANGED <<src, h, buf, pos, final, btype, block_length, ctable, lltable,
                   dtable, fixed, task, ret, out, blk, refs, errored, huff, image>>

NextBlock == WriteBlock

SpecBlock == InitBlock /\ [][NextBlock]_vars

\* The n low bits of x, the highest first.
MsbBits(x, n) == [k \in 1..n |-> (x \div Pow2(n - k)) % 2]

\* The number a bit sequence stands for, the first bit the highest.
RECURSIVE MsbValue(_)
MsbValue(b) ==
    IF b = <<>> THEN 0 ELSE 2 * MsbValue(SubSeq(b, 1, Len(b) - 1)) + b[Len(b)]

\* SSSS of ISO 10918-1 F.1.2: the number of bits of the magnitude of v.
Ssss(v) ==
    CHOOSE n \in 0..16 :
        /\ (IF v < 0 THEN -v ELSE v) < Pow2(n)
        /\ n > 0 => (IF v < 0 THEN -v ELSE v) >= Pow2(n - 1)

\* The Ssss(v) raw bits of v: v itself, or v + 2^SSSS - 1 for v below 0.
RawBits(v) == MsbBits(IF v < 0 THEN v + Pow2(Ssss(v)) - 1 ELSE v, Ssss(v))

\* The coefficients of a block at the zig-zag positions 1..63.
ZigZag(coefs) == [k \in 1..63 |-> coefs[UNZIGZAG[k + 1] + 1]]

\* The run of zeros before position k of the coefficients z.
ZeroRun(z, k) ==
    IF \E j \in 1..(k - 1) : z[j] # 0
    THEN k - 1 - (CHOOSE j \in 1..(k - 1) : z[j] # 0 /\ \A m \in (j + 1)..(k - 1) : z[m] = 0)
    ELSE k - 1

\* The symbols of figure F.2 for position k of the coefficients z, each
\* with the coefficient whose raw bits follow it.
SymbolsAt(z, k) ==
    IF z[k] = 0 THEN (IF k = 63 THEN <<[sym |-> 0, v |-> 0]>> ELSE <<>>)
    ELSE Copies([sym |-> 240, v |-> 0], ZeroRun(z, k) \div 16)
         \o <<[sym |-> ((ZeroRun(z, k) % 16) * 16) + Ssss(z[k]), v |-> z[k]]>>

\* The symbols for the positions k .. 63.
RECURSIVE AcSymbols(_, _)
AcSymbols(z, k) == IF k > 63 THEN <<>> ELSE SymbolsAt(z, k) \o AcSymbols(z, k + 1)

\* The code of symbol sym in a table and the raw bits of v behind it.
SymbolBits(table, sym, v) ==
    MsbBits(table[sym + 1].code, table[sym + 1].size) \o RawBits(v)

\* The bits of the symbols y[i ..].
RECURSIVE SymbolsBits(_, _, _)
SymbolsBits(table, y, i) ==
    IF i > Len(y) THEN <<>>
    ELSE SymbolBits(table, y[i].sym, y[i].v) \o SymbolsBits(table, y, i + 1)

\* The AC coefficients the symbols y[i ..] stand for, behind acc.
RECURSIVE Rebuilt(_, _, _)
Rebuilt(y, i, acc) ==
    IF i > Len(y) THEN acc
    ELSE IF y[i].sym = 0 THEN acc \o Copies(0, 63 - Len(acc))
    ELSE IF y[i].sym = 240 THEN Rebuilt(y, i + 1, acc \o Copies(0, 16))
    ELSE Rebuilt(y, i + 1, acc \o Copies(0, y[i].sym \div 16) \o <<y[i].v>>)

\* The codes of a table as bit sequences, each with the values it is the
\* code of.
ByBits(table) ==
    [s \in {MsbBits(table[v + 1].code, table[v + 1].size) :
               v \in {u \in 0..255 : table[u + 1].size \in 1..16}} |->
        {v \in 0..255 : /\ table[v + 1].size = Len(s)
                        /\ MsbBits(table[v + 1].code, Len(s)) = s}]

LumaAcByBits == ByBits(JPEGEncoderNew.luma_actable)

ChromaAcByBits == ByBits(JPEGEncoderNew.chroma_actable)

\* The values whose code, in the codes c, the bits b begin with at
\* position i.
Matching(c, b, i) ==
    UNION {c[s] : s \in {SubSeq(b, i, i + n - 1) :
                            n \in {m \in 1..16 : i + m - 1 <= Len(b)}} \cap DOMAIN c}

\* The coefficient of n raw bits: EXTEND of ISO 10918-1 F.2.2.1.
Extended(raw) ==
    IF raw = <<>> THEN 0
    ELSE IF raw[1] = 1 THEN MsbValue(raw)
    ELSE MsbValue(raw) - Pow2(Len(raw)) + 1

\* A decoder of the AC coefficients: the symbols read from the bits b at
\* position i on, x = [ok, z, i, eobs] being what was read before and c
\* the codes of the table; it stops at the first position where not
\* exactly one code matches.
RECURSIVE AcDecoded(_, _, _, _)
AcParsed(table, c, b, x, sym) ==
    IF sym = 0
    THEN [ok |-> TRUE, z |-> x.z \o Copies(0, 63 - Len(x.z)),
          i |-> x.i + table[1].size, eobs |-> x.eobs + 1]
    ELSE IF sym = 240
    THEN AcDecoded(table, c, b, [x EXCEPT !.z = @ \o Copies(0, 16),
                                          !.i = @ + table[241].size])
    ELSE AcDecoded(table, c, b,
                   [x EXCEPT !.z = @ \o Copies(0, sym \div 16)
                                     \o <<Extended(SubSeq(b, x.i + table[sym + 1].size,
                                                          x.i + table[sym + 1].size
                                                              + (sym % 16) - 1))>>,
                             !.i = @ + table[sym + 1].size + (sym % 16)])

AcDecoded(table, c, b, x) ==
    IF Len(x.z) >= 63 THEN x
    ELSE IF Cardinality(Matching(c, b, x.i)) # 1 THEN [x EXCEPT !.ok = FALSE]
    ELSE AcParsed(table, c, b, x, CHOOSE v \in Matching(c, b, x.i) : TRUE)

\* The block written last, its tables, and the bits pushed for it.
LastBlock == trace.blocks[Len(trace.blocks)]

DcTableAt(b) == IF b.luma THEN enc.luma_dctable ELSE enc.chroma_dctable

AcTableAt(b) == IF b.luma THEN enc.luma_actable ELSE enc.chroma_actable

LastBits == SubSeq(trace.pushed, LastBlock.at + 1, Len(trace.pushed))

\* The bits of the difference of the block written last.
LastDcBits ==
    SymbolBits(DcTableAt(LastBlock), Ssss(LastBlock.dcval - LastBlock.prev),
               LastBlock.dcval - LastBlock.prev)

\* The symbols of the AC coefficients of the block written last.
LastAcSymbols == AcSymbols(ZigZag(LastBlock.coefs), 1)

\* What a decoder reads behind the bits of the difference.
LastAcDecoded ==
    AcDecoded(AcTableAt(LastBlock),
              IF LastBlock.luma THEN LumaAcByBits ELSE ChromaAcByBits, LastBits,
              [ok |-> TRUE, z |-> <<>>, i |-> Len(LastDcBits) + 1, eobs |-> 0])

\* C23: the bits write_block pushes are the code and raw bits of the
\* difference of the DC coefficient followed by the symbols of figure F.2:
\* for each coefficient that is not 0, behind a run of r zeros,
\* floor(r / 16) symbols 0xF0, the symbol ((r mod 16) << 4) | size and size
\* raw bits; the symbol 0x00 once and last exactly when the coefficient at
\* position 63 is 0; a decoder reads the 63 coefficients back from the
\* bits, and a block of zeros with predictor 0 is the code of size 0 of the
\* DC table followed by the code of 0x00.
RunLengthCoding ==
    trace.blocks # <<>> =>
        /\ trace.st = "Ok"
        /\ enc.luma_actable = JPEGEncoderNew.luma_actable
        /\ enc.chroma_actable = JPEGEncoderNew.chroma_actable
        /\ LastBits = LastDcBits \o SymbolsBits(AcTableAt(LastBlock), LastAcSymbols, 1)
        /\ Cardinality({i \in DOMAIN LastAcSymbols : LastAcSymbols[i].sym = 0})
               = (IF ZigZag(LastBlock.coefs)[63] = 0 THEN 1 ELSE 0)
        /\ ZigZag(LastBlock.coefs)[63] = 0 => LastAcSymbols[Len(LastAcSymbols)].sym = 0
        /\ Rebuilt(LastAcSymbols, 1, <<>>) = ZigZag(LastBlock.coefs)
        /\ LastAcDecoded.ok
        /\ LastAcDecoded.z = ZigZag(LastBlock.coefs)
        /\ LastAcDecoded.i = Len(LastBits) + 1
        /\ LastAcDecoded.eobs = (IF ZigZag(LastBlock.coefs)[63] = 0 THEN 1 ELSE 0)
        /\ (LastBlock.prev = 0 /\ \A i \in 1..64 : LastBlock.coefs[i] = 0) =>
               LastBits = MsbBits(DcTableAt(LastBlock)[1].code, DcTableAt(LastBlock)[1].size)
                          \o MsbBits(AcTableAt(LastBlock)[1].code,
                                     AcTableAt(LastBlock)[1].size)

\* A second block was written whose coefficients at the positions 1 and 40
\* are set, 38 zeros between them: two symbols 0xF0 and a run of 6, and the
\* symbol 0x00 behind them.
RunLengthCodingWitness ==
    /\ Len(trace.blocks) = 2
    /\ trace.st = "Ok"
    /\ ZigZag(LastBlock.coefs)[1] = -2
    /\ ZigZag(LastBlock.coefs)[40] = 1
    /\ [i \in 1..Len(LastAcSymbols) |-> LastAcSymbols[i].sym] = <<2, 240, 240, 97, 0>>
    /\ LastBlock.prev = 3
    /\ LastBlock.dcval = 0

(***************************************************************************)
(* The end of the scan, for the call of encode made last.                  *)
(***************************************************************************)
\* A byte sequence without the 0x00 behind every 0xFF.
RECURSIVE Unstuffed(_)
Unstuffed(bytes) ==
    IF bytes = <<>> THEN <<>>
    ELSE IF Head(bytes) = 255 /\ Len(bytes) >= 2 /\ bytes[2] = 0
    THEN <<255>> \o Unstuffed(SubSeq(bytes, 3, Len(bytes)))
    ELSE <<Head(bytes)>> \o Unstuffed(Tail(bytes))

\* The bits of a byte sequence, the highest bit of each byte first.
BytesBits(bytes) ==
    [i \in 1..(8 * Len(bytes)) |-> (bytes[((i - 1) \div 8) + 1] \div Pow2(7 - ((i - 1) % 8))) % 2]

\* The segment written last: EOI when the call returned.
LastSeg == trace.segs[Len(trace.segs)]

\* The bytes between the SOS segment and the EOI marker.
ScanBytes == SubSeq(enc.w, trace.scan_at + 1, LastSeg.at)

ScanBits == BytesBits(Unstuffed(ScanBytes))

\* The bits the blocks of the call made last were written with: what was
\* given to write_bits from its first block on, but for the seven bits of
\* pad_byte.
EntropyBits ==
    SubSeq(trace.pushed, BlocksOf(trace.calls)[1].at + 1, Len(trace.pushed) - 7)

\* C24: when encode has returned, every bit written for the blocks of the
\* scan is in the bytes between the SOS segment and the EOI marker, behind
\* the bits the accumulator held when the scan began; the bits behind them
\* in the last byte of the scan are all 1, they are fewer than 8 (no more
\* than one byte of padding), 0x00 follows every byte 0xFF of the scan, and
\* the marker EOI ends the file.
PaddedScan ==
    (trace.calls > 0 /\ trace.st = "Ok") =>
        /\ LastSeg.marker = EOI
        /\ SubSeq(enc.w, LastSeg.at + 1, Len(enc.w)) = <<255, EOI>>
        /\ ScanBytes = Stuffed(Unstuffed(ScanBytes))
        /\ Len(ScanBits) >= trace.scan_nbits + Len(EntropyBits)
        /\ SubSeq(ScanBits, trace.scan_nbits + 1, trace.scan_nbits + Len(EntropyBits))
               = EntropyBits
        /\ \A i \in (trace.scan_nbits + Len(EntropyBits) + 1)..Len(ScanBits) :
               ScanBits[i] = 1
        /\ Len(ScanBits) - (trace.scan_nbits + Len(EntropyBits)) < 8

\* A first call has returned whose blocks took five bits more than whole
\* bytes: the last byte of the scan ends in three bits that are 1.
PaddedScanWitness ==
    /\ trace.calls = 1
    /\ trace.st = "Ok"
    /\ Len(EntropyBits) % 8 = 5
    /\ Len(ScanBits) = Len(EntropyBits) + 3
    /\ SubSeq(ScanBits, Len(ScanBits) - 2, Len(ScanBits)) = <<1, 1, 1>>

\* C25: behind every call of write_bits and pad_byte the accumulator holds
\* fewer than 8 bits, they are its highest bits and every bit below them
\* is 0, and the bytes written, without the 0x00 behind a byte 0xFF,
\* followed by the bits held are the bits of all the values written, the
\* highest bit of each first: no bit is lost and none is written twice.
BitAccumulator ==
    /\ enc.nbits < 8
    /\ Len(enc.accumulator) = 32
    /\ \A i \in (enc.nbits + 1)..32 : enc.accumulator[i] = 0
    /\ BytesBits(Unstuffed(enc.w)) \o SubSeq(enc.accumulator, 1, enc.nbits) = trace.pushed

\* A code of 16 bits was written when seven bits were held: 23 bits were
\* in the accumulator, two bytes went out and seven bits are held.
BitAccumulatorWitness ==
    /\ trace.calls = 2
    /\ Len(trace.pushed) = 23
    /\ SubSeq(trace.pushed, 1, 7) = <<1, 1, 1, 1, 1, 1, 1>>
    /\ Len(Unstuffed(enc.w)) = 2
    /\ enc.nbits = 7

\* C26: while the task lives, eof() is true only when the block with
\* BFINAL=1 was decoded completely: when the decoding of that block ended
\* in an error, eof() stays false, also when every buffered byte has been
\* read.
EofOnlyWhenComplete ==
    (task = "running" /\ eof(final, pos, buf)) => blk.st = "Ok"

\* The bytes the first and the second call of encode wrote.
FirstFile == SubSeq(enc.w, 1, SegsOf(2)[1].at)

SecondFile == SubSeq(enc.w, SegsOf(2)[1].at + 1, Len(enc.w))

\* C27: when encode has returned twice for the same image, the second call
\* wrote the bytes the first call wrote, and the scan of the second call
\* began as that of the first: no bit held and the accumulator 0.
NoCarriedState ==
    (trace.calls = 2 /\ trace.st = "Ok") =>
        /\ trace.scan_nbits = 0
        /\ trace.scan_acc = ZeroWord
        /\ SecondFile = FirstFile

\* NoCarriedState for the images whose first scan leaves no bit behind.
NoCarriedStateNarrow ==
    (trace.calls = 2 /\ trace.st = "Ok" /\ trace.scan_nbits = 0) =>
        /\ trace.scan_acc = ZeroWord
        /\ SecondFile = FirstFile

\* C28: in every state of the reader num_bits is the number of bits
\* fetched and not yet taken: no operation has taken more bits than the
\* bytes read held, the counter has not wrapped, and it is at most 23.
NumBitsHeld ==
    /\ h.used <= 8 * h.r
    /\ h.num_bits = 8 * h.r - h.used
    /\ h.num_bits <= 23

\* The bits of the codes of the first n symbols encoded.
RECURSIVE CodeBitsUpTo(_)
CodeBitsUpTo(n) ==
    IF n = 0 THEN 0 ELSE huff.lengths[huff.symbols[n] + 1] + CodeBitsUpTo(n - 1)

ReadToLastBit ==
    (blk.st = "Ok" /\ h.used <= 8 * h.r) => h.r = (h.used + 7) \div 8

=============================================================================
